---- MODULE Spec2Model ----
(***************************************************************************)
(* Model of the PF2e random encounter generator (generateEncounter,        *)
(* pickMonsters, spawnMonster).  Strings are sequences of one-character    *)
(* strings so that toLowerCase, trim and includes are computed.            *)
(***************************************************************************)
EXTENDS Integers, Sequences, FiniteSets, TLC

VARIABLES
    pc,                      \* position inside generateEncounter / pickMonsters
    isGM,                    \* game.user.isGM
    characters,              \* levels of the player-owned characters
    apl,                     \* average party level
    partySize,
    selectedDifficulty,      \* dialog result
    selectedTrait,
    selectedRarity,
    xpBudget,
    folderExists,            \* scene folder "Random Encounters" exists
    scenes,                  \* scenes inside that folder
    targetScene,             \* 0 = none, else index into scenes
    packs,                   \* compendium indexes, one per pack key
    requiredTrait,           \* arguments of pickMonsters
    requiredRarity,
    budget,
    traitLower,              \* locals of pickMonsters
    rarityLower,
    packIdx,
    candidates,
    currentSpent,
    selected,
    attempts,
    selectedUniqueActorIds,
    selectedTraits,
    monstersToSpawn,         \* locals of the spawn callback
    spawnIdx,
    successfulSpawns,
    worldActors,             \* uuids of compendium actors imported in the world
    tokens,                  \* tokens created on the target scene
    chatMessages,
    spawnCalls,              \* the calls of spawnMonster made so far
    rest,                    \* Full Restore: executeRest
    cleanup,                 \* Quick Combat Cleanup: cleanupCombat
    award,                   \* Award XP: awardXP
    exploration,             \* Easy Exploration: manageExploration / setExploration
    module,                  \* the module's ready handler
    outcome                  \* last notification shown to the user

\* the state of the other macros of the module
Macros == <<rest, cleanup, award, exploration, module>>

vars == <<pc, isGM, characters, apl, partySize, selectedDifficulty, selectedTrait,
          selectedRarity, xpBudget, folderExists, scenes, targetScene, packs, Macros,
          requiredTrait, requiredRarity, budget, traitLower, rarityLower, packIdx,
          candidates, currentSpent, selected, attempts, selectedUniqueActorIds,
          selectedTraits, monstersToSpawn, spawnIdx, successfulSpawns, worldActors,
          tokens, chatMessages, spawnCalls, outcome>>

Idle == [pc |-> "idle"]

\* no other macro of the module is running
MacrosIdle ==
    /\ rest = Idle
    /\ cleanup = Idle
    /\ award = Idle
    /\ exploration = Idle
    /\ module = Idle


----------------------------------------------------------------------------
(* Bounds of the model *)

\* Math.random() returns k / RandSteps for k in 0 .. RandSteps - 1
RandSteps == 4

\* largest number of index entries drawn for one pack when only filtering is explored
MaxPackSize == 2

\* largest party drawn when only the budget derivation is explored
MaxParty == 6

----------------------------------------------------------------------------
(* Strings *)

UpperChars == <<"A","B","C","D","E","F","G","H","I","J","K","L","M",
                "N","O","P","Q","R","S","T","U","V","W","X","Y","Z">>
LowerChars == <<"a","b","c","d","e","f","g","h","i","j","k","l","m",
                "n","o","p","q","r","s","t","u","v","w","x","y","z">>

ToLowerChar(c) ==
    IF \E k \in DOMAIN UpperChars : UpperChars[k] = c
    THEN LowerChars[CHOOSE k \in DOMAIN UpperChars : UpperChars[k] = c]
    ELSE c

\* String.prototype.toLowerCase
ToLowerCase(s) == [k \in 1..Len(s) |-> ToLowerChar(s[k])]

\* String.prototype.trim
RECURSIVE TrimStart(_)
TrimStart(s) == IF Len(s) > 0 /\ s[1] = " " THEN TrimStart(Tail(s)) ELSE s
RECURSIVE TrimEnd(_)
TrimEnd(s) == IF Len(s) > 0 /\ s[Len(s)] = " " THEN TrimEnd(SubSeq(s, 1, Len(s) - 1)) ELSE s
Trim(s) == TrimEnd(TrimStart(s))

\* String.prototype.includes
StrIncludes(s, sub) ==
    \E k \in 0..(Len(s) - Len(sub)) : SubSeq(s, k + 1, k + Len(sub)) = sub

\* Array.prototype.includes
ArrIncludes(arr, x) == \E k \in DOMAIN arr : arr[k] = x

Range(s) == {s[k] : k \in DOMAIN s}

ANY      == <<"a","n","y">>
COMMON   == <<"c","o","m","m","o","n">>
UNCOMMON == <<"u","n","c","o","m","m","o","n">>
RARE     == <<"r","a","r","e">>
UNIQUE   == <<"u","n","i","q","u","e">>
Fiend    == <<"f","i","e","n","d">>
FiendCap == <<"F","i","e","n","d">>
FIEND    == <<"F","I","E","N","D">>
Fire     == <<"f","i","r","e">>
Animal   == <<"a","n","i","m","a","l">>
RareCap  == <<"R","a","r","e">>

----------------------------------------------------------------------------
(* Compendium index entries *)

PackKeys == <<"pf2e.pathfinder-monster-core", "pf2e.pathfinder-bestiary">>

IndexEntry(id, name, type, level, hasTraits, traits, hasRarity, rarity) ==
    [_id |-> id, name |-> name, type |-> type, level |-> level,
     hasTraits |-> hasTraits, traits |-> traits,
     hasRarity |-> hasRarity, rarity |-> rarity]

EntryIds == << <<"a1","a2","a3","a4","a5","a6","a7","a8">>,
               <<"b1","b2","b3","b4","b5","b6","b7","b8">> >>

\* The entries a pack index may hold; p is the position of the pack in PackKeys.
Catalog(p) == <<
    IndexEntry(EntryIds[p][1], <<"I","m","p">>, "npc", 3,
               TRUE, <<Fiend, Fire>>, TRUE, COMMON),
    IndexEntry(EntryIds[p][2], <<"F","i","e","n","d","l","i","n","g">>, "npc", 2,
               TRUE, <<Animal>>, FALSE, <<>>),
    IndexEntry(EntryIds[p][3], <<"B","a","l","o","r">>, "npc", 4,
               TRUE, <<FiendCap, Fire>>, TRUE, RARE),
    IndexEntry(EntryIds[p][4], <<"H","e","l","l","f","i","e","n","d">>, "npc", 5,
               FALSE, <<>>, TRUE, RareCap),
    IndexEntry(EntryIds[p][5], <<"P","i","t"," ","F","i","e","n","d">>, "npc", 6,
               TRUE, <<Fiend>>, TRUE, RARE),
    IndexEntry(EntryIds[p][6], <<"F","i","e","n","d"," ","T","r","a","p">>, "hazard", 3,
               TRUE, <<Fiend>>, TRUE, RARE),
    IndexEntry(EntryIds[p][7], <<"W","o","l","f">>, "npc", 0,
               TRUE, <<Animal, RARE>>, TRUE, RARE),
    IndexEntry(EntryIds[p][8], <<"Q","u","a","s","i","t">>, "npc", 1,
               TRUE, <<Fiend>>, TRUE, RARE) >>

RECURSIVE SeqOfSet(_, _)
\* the entries of cat at the positions S, in index order
SeqOfSet(cat, S) ==
    IF S = {} THEN <<>>
    ELSE LET m == CHOOSE x \in S : \A y \in S : x <= y
         IN <<cat[m]>> \o SeqOfSet(cat, S \ {m})

\* every index of at most n entries of the catalog
Indexes(p, n) ==
    {SeqOfSet(Catalog(p), S) : S \in {T \in SUBSET (1..Len(Catalog(p))) : Cardinality(T) <= n}}

PackValues(p, n) ==
    {[present |-> TRUE, index |-> ix] : ix \in Indexes(p, n)}
        \cup {[present |-> FALSE, index |-> <<>>]}

----------------------------------------------------------------------------
(* pickMonsters: candidate filtering *)

\* mutant of LevelValid: the window starts four levels below the party
LevelValidFourBelow(i, a) ==
    /\ i.type = "npc"
    /\ i.level >= (a - 4)
    /\ i.level <= (a + 2)

LevelValid(i, a) ==
    /\ i.type = "npc"
    /\ i.level >= (a - 3)
    /\ i.level <= (a + 2)

\* i.system.traits?.rarity?.toLowerCase() || 'common'
MonsterRarity(i) ==
    LET r == IF i.hasRarity THEN ToLowerCase(i.rarity) ELSE <<>>
    IN IF r = <<>> THEN COMMON ELSE r

\* mutant of RarityFilter: an entry without rarity data passes every rarity
RarityFilterMissingPasses(valid, rl) ==
    IF rl # ANY
    THEN LET Keep(i) == ~i.hasRarity \/ MonsterRarity(i) = rl IN SelectSeq(valid, Keep)
    ELSE valid

RarityFilter(valid, rl) ==
    IF rl # ANY
    THEN LET Keep(i) == MonsterRarity(i) = rl IN SelectSeq(valid, Keep)
    ELSE valid

\* i.system.traits?.value?.includes(traitLower)
TraitTagged(i, tl) == i.hasTraits /\ ArrIncludes(i.traits, tl)

TraitFilter(valid, tl) ==
    LET Keep(i) == TraitTagged(i, tl) IN SelectSeq(valid, Keep)

\* mutant of NameFallback: the name is compared without lowercasing it
NameFallbackCaseSensitive(index, a, tl) ==
    LET Keep(i) == LevelValid(i, a) /\ StrIncludes(i.name, tl)
    IN SelectSeq(index, Keep)

\* mutant of NameFallback: the fallback forgets the level window
NameFallbackAnyLevel(index, a, tl) ==
    LET Keep(i) == i.type = "npc" /\ StrIncludes(ToLowerCase(i.name), tl)
    IN SelectSeq(index, Keep)

NameFallback(index, a, tl) ==
    LET Keep(i) == LevelValid(i, a) /\ StrIncludes(ToLowerCase(i.name), tl)
    IN SelectSeq(index, Keep)

\* the body of the loop over packKeys, for one pack index
FilterIndex(index, a, tl, rl) ==
    LET Lv(i)  == LevelValid(i, a)
        valid0 == SelectSeq(index, Lv)
        valid1 == RarityFilter(valid0, rl)
    IN IF tl # <<>>
       THEN LET valid2 == TraitFilter(valid1, tl)
            IN IF Len(valid2) = 0 THEN NameFallback(index, a, tl) ELSE valid2
       ELSE valid1

\* valid.map(i => ({ ...i, pack: key }))
WithPack(valid, key) ==
    [k \in 1..Len(valid) |->
        [_id |-> valid[k]._id, name |-> valid[k].name, type |-> valid[k].type,
         level |-> valid[k].level, hasTraits |-> valid[k].hasTraits,
         traits |-> valid[k].traits, hasRarity |-> valid[k].hasRarity,
         rarity |-> valid[k].rarity, pack |-> key]]

\* entry of pickMonsters: the locals declared before the pack loop
PickMonstersEntry ==
    /\ pc = "pickMonsters"
    /\ traitLower' = ToLowerCase(requiredTrait)
    /\ rarityLower' = ToLowerCase(requiredRarity)
    /\ candidates' = <<>>
    /\ packIdx' = 1
    /\ pc' = "index"
    /\ UNCHANGED <<isGM, characters, apl, partySize, selectedDifficulty, selectedTrait,
                   selectedRarity, xpBudget, folderExists, scenes, targetScene, packs, Macros,
                   requiredTrait, requiredRarity, budget, currentSpent, selected,
                   attempts, selectedUniqueActorIds, selectedTraits, monstersToSpawn,
                   spawnIdx, successfulSpawns, worldActors, tokens, chatMessages,
                   spawnCalls, outcome>>

\* one iteration of `for (const key of packKeys)`
FilterPack ==
    /\ pc = "index"
    /\ packIdx <= Len(PackKeys)
    /\ candidates' =
          IF packs[packIdx].present
          THEN candidates \o WithPack(FilterIndex(packs[packIdx].index, apl,
                                                  traitLower, rarityLower),
                                      PackKeys[packIdx])
          ELSE candidates
    /\ packIdx' = packIdx + 1
    /\ UNCHANGED <<pc, isGM, characters, apl, partySize, selectedDifficulty, selectedTrait,
                   selectedRarity, xpBudget, folderExists, scenes, targetScene, packs, Macros,
                   requiredTrait, requiredRarity, budget, traitLower, rarityLower,
                   currentSpent, selected, attempts, selectedUniqueActorIds,
                   selectedTraits, monstersToSpawn, spawnIdx, successfulSpawns,
                   worldActors, tokens, chatMessages, spawnCalls, outcome>>

----------------------------------------------------------------------------
(* pickMonsters called on its own, to explore the filtering rules *)

FilterTraits == {<<>>, Fiend, FIEND, Fire}
FilterRarities == {ANY, RARE, RareCap, COMMON}

InitFilter ==
    /\ pc = "pickMonsters"
    /\ isGM = TRUE
    /\ characters = <<3>>
    /\ apl = 3
    /\ partySize = 1
    /\ selectedDifficulty = "Trivial"
    /\ selectedTrait = <<>>
    /\ selectedRarity = ANY
    /\ xpBudget = 40
    /\ folderExists = TRUE
    /\ scenes = <<>>
    /\ targetScene = 0
    /\ packs \in {<<p1, p2>> : p1 \in PackValues(1, MaxPackSize),
                               p2 \in PackValues(2, MaxPackSize)}
    /\ requiredTrait \in FilterTraits
    /\ requiredRarity \in FilterRarities
    /\ budget = 40
    /\ traitLower = <<>>
    /\ rarityLower = <<>>
    /\ packIdx = 0
    /\ candidates = <<>>
    /\ currentSpent = 0
    /\ selected = <<>>
    /\ attempts = 0
    /\ selectedUniqueActorIds = <<>>
    /\ selectedTraits = <<>>
    /\ monstersToSpawn = <<>>
    /\ spawnIdx = 0
    /\ successfulSpawns = 0
    /\ worldActors = {}
    /\ tokens = <<>>
    /\ chatMessages = 0
    /\ spawnCalls = <<>>
    /\ MacrosIdle
    /\ outcome = "none"

NextFilter == PickMonstersEntry \/ FilterPack

SpecFilter == InitFilter /\ [][NextFilter]_vars

FilterDone == packIdx > Len(PackKeys)

----------------------------------------------------------------------------
(* generateEncounter: party data, dialog, budget *)

Difficulties == {"Trivial", "Low", "Moderate", "Severe", "Extreme"}

\* mutant of xpValues: a wrong base value for Extreme
xpValuesWrongExtreme ==
    [Trivial |-> 40, Low |-> 60, Moderate |-> 80, Severe |-> 120, Extreme |-> 180]

xpValues == [Trivial |-> 40, Low |-> 60, Moderate |-> 80, Severe |-> 120, Extreme |-> 160]

RECURSIVE Sum(_)
\* levels.reduce((a, b) => a + b, 0)
Sum(s) == IF s = <<>> THEN 0 ELSE s[1] + Sum(Tail(s))

\* Math.round(total / n) for total >= 0, n > 0: halves round up
MathRound(total, n) == (2 * total + n) \div (2 * n)

\* mutant of DeriveBudget: the floor of 40 is missing
DeriveBudgetNoFloor(difficulty, size) == xpValues[difficulty] + (20 * (size - 4))

\* the number arithmetic yields for `undefined`. Every comparison with NaN is false in
\* the code; the value standing for it here lies below every amount spent, so that
\* `currentSpent < budget` is false for it as well
NaN == 0 - 1

\* xpValues[selectedDifficulty]: undefined for a key the object does not have
BaseXp(difficulty) ==
    IF difficulty \in DOMAIN xpValues THEN <<xpValues[difficulty]>> ELSE <<>>

DeriveBudget(difficulty, size) ==
    LET baseXp == BaseXp(difficulty)
        raw    == IF baseXp = <<>> THEN NaN ELSE baseXp[1] + (20 * (size - 4))
    IN IF raw # NaN /\ raw < 40 THEN 40 ELSE raw

\* what the user may type in the trait field and choose in the rarity select
DialogTraits == {<<>>, <<" ", "F", "i", "e", "n", "d">>}
DialogRarities == {ANY, RARE}

Rest == <<folderExists, scenes, targetScene, packs, Macros, requiredTrait, requiredRarity, budget,
          traitLower, rarityLower, packIdx, candidates, currentSpent, selected, attempts,
          selectedUniqueActorIds, selectedTraits, monstersToSpawn, spawnIdx,
          successfulSpawns, worldActors, tokens, chatMessages, spawnCalls>>

\* generateEncounter up to the dialog: GM check and party data
NotGM ==
    /\ pc = "start"
    /\ ~isGM
    /\ outcome' = "only_gm"
    /\ pc' = "done"
    /\ UNCHANGED <<isGM, characters, apl, partySize, selectedDifficulty, selectedTrait,
                   selectedRarity, xpBudget, Rest>>

NoCharacters ==
    /\ pc = "start"
    /\ isGM
    /\ Len(characters) = 0
    /\ outcome' = "no_characters"
    /\ pc' = "done"
    /\ UNCHANGED <<isGM, characters, apl, partySize, selectedDifficulty, selectedTrait,
                   selectedRarity, xpBudget, Rest>>

PartyData ==
    /\ pc = "start"
    /\ isGM
    /\ Len(characters) # 0
    /\ apl' = MathRound(Sum(characters), Len(characters))
    /\ partySize' = Len(characters)
    /\ pc' = "dialog"
    /\ UNCHANGED <<isGM, characters, selectedDifficulty, selectedTrait, selectedRarity,
                   xpBudget, outcome, Rest>>

DialogCancel ==
    /\ pc = "dialog"
    /\ outcome' = "cancelled"
    /\ pc' = "done"
    /\ UNCHANGED <<isGM, characters, apl, partySize, selectedDifficulty, selectedTrait,
                   selectedRarity, xpBudget, Rest>>

\* the Generate button, then the budget derivation up to `await getOrCreateSceneFolder()`
DialogGenerateFrom(tiers) ==
    /\ pc = "dialog"
    /\ \E d \in tiers, t \in DialogTraits, r \in DialogRarities :
          /\ selectedDifficulty' = d
          /\ selectedTrait' = Trim(t)
          /\ selectedRarity' = r
          /\ xpBudget' = DeriveBudget(d, partySize)
    /\ pc' = "sceneFolder"
    /\ UNCHANGED <<isGM, characters, apl, partySize, outcome, Rest>>

\* the form as generateEncounter renders it: one radio button per key of xpValues
DialogGenerate == DialogGenerateFrom(Difficulties)

\* the value of the checked radio button is read back from the document (line 119) and
\* used as a key without a check: a form whose buttons were changed after rendering
\* yields a tier xpValues does not have
AlteredFormTiers == Difficulties \cup {"Deadly"}

DialogGenerateAltered == DialogGenerateFrom(AlteredFormTiers)

----------------------------------------------------------------------------
(* generateEncounter called with any party, to explore the budget derivation *)

RECURSIVE SeqsUpTo(_, _)
\* the sequences over S of length at most n
SeqsUpTo(S, n) ==
    IF n = 0 THEN {<<>>}
    ELSE LET shorter == SeqsUpTo(S, n - 1)
         IN shorter \cup {Append(q, x) : q \in {z \in shorter : Len(z) = n - 1}, x \in S}

BudgetLevels == {2, 3}

InitBudget ==
    /\ pc = "start"
    /\ isGM \in BOOLEAN
    /\ characters \in SeqsUpTo(BudgetLevels, MaxParty)
    /\ apl = 0
    /\ partySize = 0
    /\ selectedDifficulty = "none"
    /\ selectedTrait = <<>>
    /\ selectedRarity = ANY
    /\ xpBudget = 0
    /\ folderExists = TRUE
    /\ scenes = <<>>
    /\ targetScene = 0
    /\ packs = <<[present |-> FALSE, index |-> <<>>], [present |-> FALSE, index |-> <<>>]>>
    /\ requiredTrait = <<>>
    /\ requiredRarity = ANY
    /\ budget = 0
    /\ traitLower = <<>>
    /\ rarityLower = <<>>
    /\ packIdx = 0
    /\ candidates = <<>>
    /\ currentSpent = 0
    /\ selected = <<>>
    /\ attempts = 0
    /\ selectedUniqueActorIds = <<>>
    /\ selectedTraits = <<>>
    /\ monstersToSpawn = <<>>
    /\ spawnIdx = 0
    /\ successfulSpawns = 0
    /\ worldActors = {}
    /\ tokens = <<>>
    /\ chatMessages = 0
    /\ spawnCalls = <<>>
    /\ MacrosIdle
    /\ outcome = "none"

NextBudget == NotGM \/ NoCharacters \/ PartyData \/ DialogCancel \/ DialogGenerate

SpecBudget == InitBudget /\ [][NextBudget]_vars

----------------------------------------------------------------------------
(* generateEncounter: scene folder and target scene *)

Draws == 0..(RandSteps - 1)

\* Math.random() < num / 10, for the draw k / RandSteps
RandomBelow(k, num) == k * 10 < num * RandSteps

\* Math.floor(Math.random() * n), for the draw k / RandSteps
RandomIndex(k, n) == (k * n) \div RandSteps

GRID_NONE == "gridless"
GRID_SQUARE == "square"

SceneValue(width, height, gridType, size) ==
    [width |-> width, height |-> height,
     grid |-> [type |-> gridType, size |-> size, w |-> size, h |-> size]]

Head0 == <<pc, isGM, characters, apl, partySize, selectedDifficulty, selectedTrait,
           selectedRarity, xpBudget>>

PickState == <<traitLower, rarityLower, packIdx, candidates, currentSpent, selected,
               attempts, selectedUniqueActorIds, selectedTraits>>

SpawnState == <<monstersToSpawn, spawnIdx, successfulSpawns, worldActors, tokens,
                chatMessages, spawnCalls>>

\* getOrCreateSceneFolder: Folder.create throws, so generateEncounter reports and returns
SceneFolderFails ==
    /\ pc = "sceneFolder"
    /\ ~folderExists
    /\ outcome' = "no_folder"
    /\ pc' = "done"
    /\ UNCHANGED <<isGM, characters, apl, partySize, selectedDifficulty, selectedTrait,
                   selectedRarity, xpBudget, Rest>>

\* the folder exists or is created, and holds no scene
NoScenes ==
    /\ pc = "sceneFolder"
    /\ Len(scenes) = 0
    /\ folderExists' = TRUE
    /\ outcome' = "no_scenes"
    /\ pc' = "done"
    /\ UNCHANGED <<isGM, characters, apl, partySize, selectedDifficulty, selectedTrait,
                   selectedRarity, xpBudget, scenes, targetScene, packs, Macros, requiredTrait,
                   requiredRarity, budget, PickState, SpawnState>>

\* a random scene of the folder, then the call pickMonsters(apl, xpBudget, trait, rarity)
SceneChosen ==
    /\ pc = "sceneFolder"
    /\ folderExists
    /\ Len(scenes) # 0
    /\ \E k \in Draws : targetScene' = RandomIndex(k, Len(scenes)) + 1
    /\ budget' = xpBudget
    /\ requiredTrait' = selectedTrait
    /\ requiredRarity' = selectedRarity
    /\ pc' = "pickMonsters"
    /\ UNCHANGED <<isGM, characters, apl, partySize, selectedDifficulty, selectedTrait,
                   selectedRarity, xpBudget, folderExists, scenes, packs, Macros, PickState,
                   SpawnState, outcome>>

----------------------------------------------------------------------------
(* pickMonsters: selection loop *)

\* `if (candidates.length === 0) return [];`
PickEmpty ==
    /\ pc = "index"
    /\ packIdx > Len(PackKeys)
    /\ Len(candidates) = 0
    /\ selected' = <<>>
    /\ pc' = "picked"
    /\ UNCHANGED <<isGM, characters, apl, partySize, selectedDifficulty, selectedTrait,
                   selectedRarity, xpBudget, folderExists, scenes, targetScene, packs, Macros,
                   requiredTrait, requiredRarity, budget, traitLower, rarityLower, packIdx,
                   candidates, currentSpent, attempts, selectedUniqueActorIds,
                   selectedTraits, SpawnState, outcome>>

\* mutant of LoopInit: the early return on an empty pool is missing
LoopInitNoEmptyCheck ==
    /\ pc = "index"
    /\ packIdx > Len(PackKeys)
    /\ currentSpent' = 0
    /\ selected' = <<>>
    /\ attempts' = 0
    /\ selectedUniqueActorIds' = <<>>
    /\ selectedTraits' = <<>>
    /\ pc' = "loop"
    /\ UNCHANGED <<isGM, characters, apl, partySize, selectedDifficulty, selectedTrait,
                   selectedRarity, xpBudget, folderExists, scenes, targetScene, packs, Macros,
                   requiredTrait, requiredRarity, budget, traitLower, rarityLower, packIdx,
                   candidates, SpawnState, outcome>>

\* the declarations in front of the while loop
LoopInit ==
    /\ pc = "index"
    /\ packIdx > Len(PackKeys)
    /\ Len(candidates) # 0
    /\ currentSpent' = 0
    /\ selected' = <<>>
    /\ attempts' = 0
    /\ selectedUniqueActorIds' = <<>>
    /\ selectedTraits' = <<>>
    /\ pc' = "loop"
    /\ UNCHANGED <<isGM, characters, apl, partySize, selectedDifficulty, selectedTrait,
                   selectedRarity, xpBudget, folderExists, scenes, targetScene, packs, Macros,
                   requiredTrait, requiredRarity, budget, traitLower, rarityLower, packIdx,
                   candidates, SpawnState, outcome>>

\* mutant of LoopCondition: the attempt cap is off by one
LoopConditionOffByOne(spent, b, n) == spent < b /\ n <= 100

\* mutant of LoopCondition: one more attempt is made when spent equals the budget
LoopConditionSpentInclusive(spent, b, n) == spent <= b /\ n < 100

\* mutant of LoopCondition: the attempt cap is 10
LoopConditionCapTen(spent, b, n) == spent < b /\ n < 10

\* while (currentSpent < budget && attempts < 100)
LoopCondition(spent, b, n) == spent < b /\ n < 100

\* candidates.find(c => c._id === id), as a sequence of zero or one entry
Find(cands, id) ==
    LET hits == {k \in DOMAIN cands : cands[k]._id = id}
    IN IF hits = {} THEN <<>>
       ELSE <<cands[CHOOSE k \in hits : \A j \in hits : k <= j]>>

\* arr[n] for a 0-based n, as a sequence of zero or one entry (undefined when out of range)
At(arr, n) == IF (n + 1) \in DOMAIN arr THEN <<arr[n + 1]>> ELSE <<>>

systemTraitsToExclude == {COMMON, UNCOMMON, RARE, UNIQUE}

\* mutant of CommonTraits: the rarity tags are kept
CommonTraitsWithRarity(st) == {st[k] : k \in DOMAIN st}

\* selectedTraits without duplicates and without the rarity tags
CommonTraits(st) ==
    {st[k] : k \in {j \in DOMAIN st :
                       /\ \A m \in 1..(j - 1) : st[m] # st[j]
                       /\ st[j] \notin systemTraitsToExclude}}

SynergisticCandidates(cands, common) ==
    LET Keep(c) == c.hasTraits /\ \E k \in DOMAIN c.traits : c.traits[k] \in common
    IN SelectSeq(cands, Keep)

\* mutant of ReusePick: the reuse branch draws from the candidates, not from the chosen ids
ReusePickAnyCandidate(cands, ids, r1, r2) ==
    IF RandomBelow(r1, 7)
    THEN At(cands, RandomIndex(r2, Len(cands)))
    ELSE <<>>

\* Strategy 1: reuse an already selected monster type
ReusePick(cands, ids, r1, r2) ==
    IF Len(ids) > 0 /\ RandomBelow(r1, 7)
    THEN Find(cands, ids[RandomIndex(r2, Len(ids)) + 1])
    ELSE <<>>

\* mutant of NovelPick: the pick is drawn from the unfiltered pack indexes
NovelPickFromIndex(cands, st, r3, r4) ==
    LET all == WithPack(packs[1].index, PackKeys[1]) \o WithPack(packs[2].index, PackKeys[2])
    IN At(all, RandomIndex(r4, Len(all)))

\* the list strategy 2 draws from
CandidateList(cands, st, r3) ==
    LET syn == SynergisticCandidates(cands, CommonTraits(st))
    IN IF Len(st) > 0 /\ Len(syn) > 0 /\ RandomBelow(r3, 6) THEN syn ELSE cands

\* Strategy 2: synergy or new monster
NovelPick(cands, st, r3, r4) ==
    LET candidateList == CandidateList(cands, st, r3)
    IN At(candidateList, RandomIndex(r4, Len(candidateList)))

\* the pick of one attempt, as a sequence of zero or one candidate
ChoosePick(cands, ids, st, r1, r2, r3, r4) ==
    LET first == ReusePick(cands, ids, r1, r2)
    IN IF first # <<>> THEN first ELSE NovelPick(cands, st, r3, r4)

HasCost(diff) == diff \in -4..2

Cost(diff) ==
    CASE diff = -4 -> 10
      [] diff = -3 -> 15
      [] diff = -2 -> 20
      [] diff = -1 -> 30
      [] diff = 0 -> 40
      [] diff = 1 -> 60
      [] diff = 2 -> 80

\* mutant of Accepts: the cost of the pick is left out of the test
AcceptsWithoutCost(spent, cost, b) == spent <= b + 10

\* mutant of Accepts: a pick that lands exactly on budget + 10 is refused
AcceptsBelowTolerance(spent, cost, b) == spent + cost < b + 10

\* if (currentSpent + cost <= budget + 10)
Accepts(spent, cost, b) == spent + cost <= b + 10

\* game.packs.get(pick.pack).getDocument(pick._id)
Document(pick) ==
    [_id |-> pick._id, pack |-> pick.pack, name |-> pick.name, level |-> pick.level]

\* mutant of Push: the actor is put in front of the array
PushInFront(arr, actor) == <<actor>> \o arr

\* selected.push(actor)
Push(arr, actor) == Append(arr, actor)

\* mutant of SetAdd: an id already in the set is added again
SetAddAgain(ids, id) == Append(ids, id)

\* selectedUniqueActorIds.add(id)
SetAdd(ids, id) == IF ArrIncludes(ids, id) THEN ids ELSE Append(ids, id)

\* the picks the random draws of one attempt can produce in the current state, that is
\* the values of ChoosePick: a reuse pick, or a strategy 2 pick when the reuse branch
\* yields none
PossiblePicks ==
    LET firsts == {ReusePick(candidates, selectedUniqueActorIds, r1, r2) : r1, r2 \in Draws}
        novel  == {NovelPick(candidates, selectedTraits, r3, r4) : r3, r4 \in Draws}
    IN (firsts \ {<<>>}) \cup (IF <<>> \in firsts THEN novel ELSE {})

\* mutant of AttemptWith: the traits of the pick are recorded before the acceptance test
AttemptWithTraitsFirst(pickSeq, found) ==
    /\ pc = "loop"
    /\ LoopCondition(currentSpent, budget, attempts)
    /\ attempts' = attempts + 1
    /\ selectedTraits' = IF pickSeq # <<>> /\ pickSeq[1].hasTraits
                         THEN selectedTraits \o pickSeq[1].traits
                         ELSE selectedTraits
    /\ IF /\ pickSeq # <<>>
          /\ HasCost(pickSeq[1].level - apl)
          /\ Accepts(currentSpent, Cost(pickSeq[1].level - apl), budget)
          /\ found
       THEN LET pick == pickSeq[1]
            IN /\ selected' = Push(selected, Document(pick))
               /\ currentSpent' = currentSpent + Cost(pick.level - apl)
               /\ selectedUniqueActorIds' = SetAdd(selectedUniqueActorIds, pick._id)
       ELSE UNCHANGED <<selected, currentSpent, selectedUniqueActorIds>>
    /\ UNCHANGED <<pc, isGM, characters, apl, partySize, selectedDifficulty, selectedTrait,
                   selectedRarity, xpBudget, folderExists, scenes, targetScene, packs, Macros,
                   requiredTrait, requiredRarity, budget, traitLower, rarityLower, packIdx,
                   candidates, SpawnState, outcome>>

\* one iteration of the while loop for the pick pickSeq (zero or one candidate);
\* found = the compendium document of the pick could be fetched
AttemptWith(pickSeq, found) ==
    /\ pc = "loop"
    /\ LoopCondition(currentSpent, budget, attempts)
    /\ attempts' = attempts + 1
    /\ IF /\ pickSeq # <<>>
          /\ HasCost(pickSeq[1].level - apl)
          /\ Accepts(currentSpent, Cost(pickSeq[1].level - apl), budget)
          /\ found
       THEN LET pick == pickSeq[1]
            IN /\ selected' = Push(selected, Document(pick))
               /\ currentSpent' = currentSpent + Cost(pick.level - apl)
               /\ selectedUniqueActorIds' = SetAdd(selectedUniqueActorIds, pick._id)
               /\ selectedTraits' = IF pick.hasTraits
                                    THEN selectedTraits \o pick.traits
                                    ELSE selectedTraits
       ELSE UNCHANGED <<selected, currentSpent, selectedUniqueActorIds, selectedTraits>>
    /\ UNCHANGED <<pc, isGM, characters, apl, partySize, selectedDifficulty, selectedTrait,
                   selectedRarity, xpBudget, folderExists, scenes, targetScene, packs, Macros,
                   requiredTrait, requiredRarity, budget, traitLower, rarityLower, packIdx,
                   candidates, SpawnState, outcome>>

\* one iteration of the while loop
Attempt ==
    /\ pc = "loop"
    /\ LoopCondition(currentSpent, budget, attempts)
    /\ \E pickSeq \in PossiblePicks, found \in BOOLEAN : AttemptWith(pickSeq, found)

\* the loop condition is false: `return selected;`
LoopExit ==
    /\ pc = "loop"
    /\ ~LoopCondition(currentSpent, budget, attempts)
    /\ pc' = "picked"
    /\ UNCHANGED <<isGM, characters, apl, partySize, selectedDifficulty, selectedTrait,
                   selectedRarity, xpBudget, Rest, outcome>>

----------------------------------------------------------------------------
(* generateEncounter: after pickMonsters, and spawnMonster *)

\* `if (monstersToSpawn.length === 0) { warn; return; }`
NoMonsters ==
    /\ pc = "picked"
    /\ Len(selected) = 0
    /\ outcome' = "no_monsters"
    /\ pc' = "done"
    /\ UNCHANGED <<isGM, characters, apl, partySize, selectedDifficulty, selectedTrait,
                   selectedRarity, xpBudget, Rest>>

\* the scene is viewed, the summary built and the spawn callback scheduled
ScheduleSpawn ==
    /\ pc = "picked"
    /\ Len(selected) # 0
    /\ monstersToSpawn' = selected
    /\ spawnIdx' = 0
    /\ successfulSpawns' = 0
    /\ pc' = "spawn"
    /\ UNCHANGED <<isGM, characters, apl, partySize, selectedDifficulty, selectedTrait,
                   selectedRarity, xpBudget, folderExists, scenes, targetScene, packs, Macros,
                   requiredTrait, requiredRarity, budget, PickState, worldActors, tokens,
                   chatMessages, spawnCalls, outcome>>

\* Math.floor(dimensions / 2)
Cluster(dimension) == dimension \div 2

Uuid(actor) == <<actor.pack, actor._id>>

\* mutant of RawPosition: the row is taken modulo the row width, as the column is
RawPositionRowByModulo(gridSize, anchorX, anchorY, spawnIndex) ==
    LET tokensPerRow == 5
        spacing == 2
        column == spawnIndex % tokensPerRow
        row == spawnIndex % tokensPerRow
    IN [x |-> anchorX + column * spacing * gridSize,
        y |-> anchorY + row * spacing * gridSize]

\* the position spawnMonster computes for a spawn index, before grid snapping
RawPosition(gridSize, anchorX, anchorY, spawnIndex) ==
    LET tokensPerRow == 5
        spacing == 2
        column == spawnIndex % tokensPerRow
        row == spawnIndex \div tokensPerRow
        offsetX == column * spacing * gridSize
        offsetY == row * spacing * gridSize
    IN [x |-> anchorX + offsetX, y |-> anchorY + offsetY]

\* the position spawnMonster gives the token: snapped to the grid unless the scene has none
SpawnPosition(scene, anchorX, anchorY, spawnIndex) ==
    LET raw == RawPosition(scene.grid.size, anchorX, anchorY, spawnIndex)
    IN IF scene.grid.type # GRID_NONE
       THEN [x |-> scene.grid.w * (raw.x \div scene.grid.w),
             y |-> scene.grid.h * (raw.y \div scene.grid.h)]
       ELSE raw

TokenFor(actor, scene, spawnIndex) ==
    LET pos == SpawnPosition(scene, Cluster(scene.width), Cluster(scene.height), spawnIndex)
    IN [actor |-> Uuid(actor), x |-> pos.x, y |-> pos.y, elevation |-> 0, hidden |-> TRUE]

\* every call of spawnMonster made so far has settled: what `await` waits for
Settled(calls) == \A k \in DOMAIN calls : calls[k].settled

\* calls with its last call settled
Settle(calls) == [calls EXCEPT ![Len(calls)].settled = TRUE]

\* mutant of SpawnIndex: the count of spawned creatures is passed as the spawn index
SpawnIndexCountsSpawned(i, spawned) == spawned

\* the last argument of the call: the loop index i
SpawnIndex(i, spawned) == i

\* `spawnMonster(monsterData, targetScene, clusterX, clusterY, i)` is called for entry i,
\* once the call for the entry before it has settled
SpawnCall ==
    /\ pc = "spawn"
    /\ spawnIdx < Len(monstersToSpawn)
    /\ Settled(spawnCalls)
    /\ spawnCalls' = Append(spawnCalls,
                            [actor      |-> Uuid(monstersToSpawn[spawnIdx + 1]),
                             spawnIndex |-> SpawnIndex(spawnIdx, successfulSpawns),
                             settled    |-> FALSE])
    /\ UNCHANGED <<Head0, folderExists, scenes, targetScene, packs, Macros, requiredTrait,
                   requiredRarity, budget, PickState, monstersToSpawn, spawnIdx,
                   successfulSpawns, worldActors, tokens, chatMessages, outcome>>

\* spawnMonster returns true: the world actor exists or is imported, a token is created
SpawnMonster ==
    /\ pc = "spawn"
    /\ ~Settled(spawnCalls)
    /\ LET monsterData == monstersToSpawn[spawnIdx + 1]
           spawnIndex  == spawnCalls[Len(spawnCalls)].spawnIndex
       IN /\ worldActors' = worldActors \cup {Uuid(monsterData)}
          /\ tokens' = Append(tokens, TokenFor(monsterData, scenes[targetScene], spawnIndex))
    /\ spawnCalls' = Settle(spawnCalls)
    /\ successfulSpawns' = successfulSpawns + 1
    /\ spawnIdx' = spawnIdx + 1
    /\ UNCHANGED <<Head0, folderExists, scenes, targetScene, packs, Macros, requiredTrait,
                   requiredRarity, budget, PickState, monstersToSpawn, chatMessages,
                   outcome>>

\* spawnMonster returns false: Actor.create throws for an actor not yet in the world
SpawnImportFails ==
    /\ pc = "spawn"
    /\ ~Settled(spawnCalls)
    /\ Uuid(monstersToSpawn[spawnIdx + 1]) \notin worldActors
    /\ spawnCalls' = Settle(spawnCalls)
    /\ spawnIdx' = spawnIdx + 1
    /\ UNCHANGED <<Head0, folderExists, scenes, targetScene, packs, Macros, requiredTrait,
                   requiredRarity, budget, PickState, monstersToSpawn, successfulSpawns,
                   worldActors, tokens, chatMessages, outcome>>

\* the GM-only chat message and the final notification
Report ==
    /\ pc = "spawn"
    /\ spawnIdx >= Len(monstersToSpawn)
    /\ chatMessages' = chatMessages + 1
    /\ outcome' = "generated"
    /\ pc' = "done"
    /\ UNCHANGED <<isGM, characters, apl, partySize, selectedDifficulty, selectedTrait,
                   selectedRarity, xpBudget, folderExists, scenes, targetScene, packs, Macros,
                   requiredTrait, requiredRarity, budget, PickState, monstersToSpawn,
                   spawnIdx, successfulSpawns, worldActors, tokens, spawnCalls>>

----------------------------------------------------------------------------
(* The generator run from its macro *)

Absent == [present |-> FALSE, index |-> <<>>]
Pack(ix) == [present |-> TRUE, index |-> ix]

\* two entries whose traits share nothing but a rarity tag
Drake == IndexEntry("a9", <<"D","r","a","k","e">>, "npc", 4,
                    TRUE, <<Fire, RARE>>, TRUE, RARE)
Ogre  == IndexEntry("a10", <<"O","g","r","e">>, "npc", 5,
                    TRUE, <<RARE>>, TRUE, RARE)

\* an entry four levels below a party of level 3
Rat   == IndexEntry("b9", <<"R","a","t">>, "npc", 0 - 1,
                    TRUE, <<Animal>>, TRUE, COMMON)

\* the compendium contents explored for a whole run
RunPacks ==
    { <<Pack(<<Catalog(1)[1], Catalog(1)[2]>>), Absent>>,
      <<Pack(<<Catalog(1)[4]>>), Pack(<<>>)>>,
      <<Pack(<<Catalog(1)[1], Catalog(1)[2]>>), Pack(<<Catalog(2)[3], Catalog(2)[5]>>)>>,
      <<Pack(<<Drake, Ogre>>), Pack(<<Catalog(2)[2], Rat>>)>> }

RunParties == {<<>>, <<3>>, <<2, 3>>}

RunFolders ==
    { [exists |-> FALSE, scenes |-> <<>>],
      [exists |-> TRUE, scenes |-> <<>>],
      [exists |-> TRUE, scenes |-> <<SceneValue(45, 35, GRID_SQUARE, 10)>>] }

InitRun(packChoices) ==
    /\ pc = "start"
    /\ isGM \in BOOLEAN
    /\ characters \in RunParties
    /\ apl = 0
    /\ partySize = 0
    /\ selectedDifficulty = "none"
    /\ selectedTrait = <<>>
    /\ selectedRarity = ANY
    /\ xpBudget = 0
    /\ \E f \in RunFolders : folderExists = f.exists /\ scenes = f.scenes
    /\ targetScene = 0
    /\ packs \in packChoices
    /\ requiredTrait = <<>>
    /\ requiredRarity = ANY
    /\ budget = 0
    /\ traitLower = <<>>
    /\ rarityLower = <<>>
    /\ packIdx = 0
    /\ candidates = <<>>
    /\ currentSpent = 0
    /\ selected = <<>>
    /\ attempts = 0
    /\ selectedUniqueActorIds = <<>>
    /\ selectedTraits = <<>>
    /\ monstersToSpawn = <<>>
    /\ spawnIdx = 0
    /\ successfulSpawns = 0
    /\ worldActors = {}
    /\ tokens = <<>>
    /\ chatMessages = 0
    /\ spawnCalls = <<>>
    /\ MacrosIdle
    /\ outcome = "none"

Init == InitRun(RunPacks)

Next ==
    \/ NotGM \/ NoCharacters \/ PartyData
    \/ DialogCancel \/ DialogGenerate
    \/ SceneFolderFails \/ NoScenes \/ SceneChosen
    \/ PickMonstersEntry \/ FilterPack \/ PickEmpty \/ LoopInit
    \/ Attempt \/ LoopExit
    \/ NoMonsters \/ ScheduleSpawn
    \/ SpawnCall \/ SpawnMonster \/ SpawnImportFails \/ Report

Spec == Init /\ [][Next]_vars

\* the compendium contents explored for termination
FairPacks ==
    { <<Pack(<<Catalog(1)[1], Catalog(1)[2]>>), Absent>>,
      <<Pack(<<Catalog(1)[4]>>), Pack(<<>>)>> }

InitFair == InitRun(FairPacks)

\* every step of a run is taken once the promise it awaits has settled
FairSpec == InitFair /\ [][Next]_vars /\ WF_vars(Next)

\* a run whose dialog form may carry a tier that is not a key of xpValues
NextTier ==
    \/ NotGM \/ NoCharacters \/ PartyData
    \/ DialogCancel \/ DialogGenerateAltered
    \/ SceneFolderFails \/ NoScenes \/ SceneChosen
    \/ PickMonstersEntry \/ FilterPack \/ PickEmpty \/ LoopInit
    \/ Attempt \/ LoopExit
    \/ NoMonsters \/ ScheduleSpawn
    \/ SpawnCall \/ SpawnMonster \/ SpawnImportFails \/ Report

SpecTier == InitFair /\ [][NextTier]_vars

----------------------------------------------------------------------------
(* The spawn callback for an encounter of up to MaxSpawned creatures *)

MaxSpawned == 7

RECURSIVE Copies(_, _)
\* n copies of x in a sequence
Copies(x, n) == IF n = 0 THEN <<>> ELSE <<x>> \o Copies(x, n - 1)

SpawnScenes ==
    { SceneValue(45, 35, GRID_SQUARE, 10),
      SceneValue(45, 35, GRID_NONE, 10),
      SceneValue(200, 100, GRID_SQUARE, 7) }

\* generateEncounter at its spawn callback: a party of six of level 3, an Extreme
\* encounter (budget 200), the only candidate a level 2 creature (cost 30) accepted n
\* times in 100 attempts
InitSpawn ==
    \E n \in 1..MaxSpawned, scene \in SpawnScenes :
        LET pick == WithPack(<<Catalog(1)[2]>>, PackKeys[1])[1]
        IN /\ pc = "spawn"
           /\ isGM = TRUE
           /\ characters = Copies(3, 6)
           /\ apl = 3
           /\ partySize = 6
           /\ selectedDifficulty = "Extreme"
           /\ selectedTrait = <<>>
           /\ selectedRarity = ANY
           /\ xpBudget = DeriveBudget("Extreme", 6)
           /\ folderExists = TRUE
           /\ scenes = <<scene>>
           /\ targetScene = 1
           /\ packs = <<Pack(<<Catalog(1)[2]>>), Absent>>
           /\ requiredTrait = <<>>
           /\ requiredRarity = ANY
           /\ budget = DeriveBudget("Extreme", 6)
           /\ traitLower = <<>>
           /\ rarityLower = ANY
           /\ packIdx = Len(PackKeys) + 1
           /\ candidates = <<pick>>
           /\ currentSpent = n * Cost(pick.level - 3)
           /\ selected = Copies(Document(pick), n)
           /\ attempts = 100
           /\ selectedUniqueActorIds = <<pick._id>>
           /\ selectedTraits = Copies(Animal, n)
           /\ monstersToSpawn = Copies(Document(pick), n)
           /\ spawnIdx = 0
           /\ successfulSpawns = 0
           /\ worldActors = {}
           /\ tokens = <<>>
           /\ chatMessages = 0
           /\ spawnCalls = <<>>
           /\ MacrosIdle
           /\ outcome = "none"

NextSpawn == SpawnCall \/ SpawnMonster \/ SpawnImportFails \/ Report

SpecSpawn == InitSpawn /\ [][NextSpawn]_vars

----------------------------------------------------------------------------
(* The other macros run while the encounter generator is not running *)

Encounter == <<Head0, folderExists, scenes, targetScene, packs, requiredTrait,
               requiredRarity, budget, PickState, SpawnState, outcome>>

\* the encounter generator is not running; gm = game.user.isGM
EncounterIdle(gm) ==
    /\ pc = "idle"
    /\ isGM = gm
    /\ characters = <<>>
    /\ apl = 0
    /\ partySize = 0
    /\ selectedDifficulty = "none"
    /\ selectedTrait = <<>>
    /\ selectedRarity = ANY
    /\ xpBudget = 0
    /\ folderExists = TRUE
    /\ scenes = <<>>
    /\ targetScene = 0
    /\ packs = <<Absent, Absent>>
    /\ requiredTrait = <<>>
    /\ requiredRarity = ANY
    /\ budget = 0
    /\ traitLower = <<>>
    /\ rarityLower = <<>>
    /\ packIdx = 0
    /\ candidates = <<>>
    /\ currentSpent = 0
    /\ selected = <<>>
    /\ attempts = 0
    /\ selectedUniqueActorIds = <<>>
    /\ selectedTraits = <<>>
    /\ monstersToSpawn = <<>>
    /\ spawnIdx = 0
    /\ successfulSpawns = 0
    /\ worldActors = {}
    /\ tokens = <<>>
    /\ chatMessages = 0
    /\ spawnCalls = <<>>
    /\ outcome = "none"

----------------------------------------------------------------------------
(* Full Restore: executeRest *)

MaxRestActors == 2

\* an actor as executeRest reads it
RestActor(name, type, conditions, hp, maxHP, heroPoints, focus, entries) ==
    [name |-> name, type |-> type, conditions |-> conditions,
     hp |-> [value |-> hp, max |-> maxHP], heroPoints |-> heroPoints,
     focus |-> focus, spellcastingEntries |-> entries]

Slots(value, max) == [value |-> value, max |-> max]
Entry(isRitual, isFocusPool, slots) ==
    [isRitual |-> isRitual, isFocusPool |-> isFocusPool, slots |-> slots]

\* a spent caster, a spent creature, and an actor with nothing to restore
SpentCaster(name, conditions) ==
    RestActor(name, "character", conditions, 3, 20, 0, <<Slots(0, 2)>>,
              <<Entry(FALSE, FALSE, <<Slots(1, 3), Slots(0, 0)>>),
                Entry(TRUE, FALSE, <<Slots(0, 1)>>)>>)
SpentCreature(name, conditions) ==
    RestActor(name, "npc", conditions, 0, 15, 0, <<>>,
              <<Entry(FALSE, FALSE, <<Slots(0, 1)>>)>>)
RestedActor(name, conditions) ==
    RestActor(name, "character", conditions, 20, 20, 1, <<Slots(1, 1)>>, <<>>)

RestActorValues ==
    { SpentCaster("Amiri", {"wounded", "fatigued"}),
      SpentCaster("Ezren", {"dead", "wounded", "fatigued"}),
      SpentCreature("Goblin", {"wounded"}),
      SpentCreature("Goblin", {"dead", "fatigued"}),
      RestedActor("Kyra", {}),
      RestedActor("Lem", {"dead"}) }

RestOptions ==
    [doHeal : BOOLEAN, doWounded : BOOLEAN, doFatigued : BOOLEAN,
     doHero : BOOLEAN, doSpells : BOOLEAN]

\* actor.hasCondition(slug)
HasCondition(actor, slug) == slug \in actor.conditions

\* mutant of SkipsActor: actors are skipped for the unconscious condition
SkipsActorUnconscious(actor) == HasCondition(actor, "unconscious")

\* `if (actor.hasCondition("dead")) continue;`
SkipsActor(actor) == HasCondition(actor, "dead")

\* the slots an entry.update refills
RefillSlots(slots) ==
    [k \in DOMAIN slots |->
        IF slots[k].max > 0 /\ slots[k].value < slots[k].max
        THEN Slots(slots[k].max, slots[k].max) ELSE slots[k]]

RefillEntry(entry) ==
    IF entry.isRitual \/ entry.isFocusPool THEN entry
    ELSE [entry EXCEPT !.slots = RefillSlots(entry.slots)]

\* one iteration of the loop over actorsToUpdate for an actor that is not skipped:
\* the actor after the updates and the changes reported for it
RestOne(actor, o) ==
    LET heal     == o.doHeal /\ actor.hp.value < actor.hp.max
        wounded  == o.doWounded /\ HasCondition(actor, "wounded")
        fatigued == o.doFatigued /\ HasCondition(actor, "fatigued")
        hero     == o.doHero /\ actor.type = "character" /\ actor.heroPoints # 1
        focus    == o.doSpells /\ actor.focus # <<>>
                    /\ actor.focus[1].value < actor.focus[1].max
        entries  == [k \in DOMAIN actor.spellcastingEntries |->
                        RefillEntry(actor.spellcastingEntries[k])]
        slots    == o.doSpells /\ entries # actor.spellcastingEntries
        after    == [actor EXCEPT
                       !.hp.value = IF heal THEN actor.hp.max ELSE @,
                       !.conditions = (@ \ (IF wounded THEN {"wounded"} ELSE {}))
                                         \ (IF fatigued THEN {"fatigued"} ELSE {}),
                       !.heroPoints = IF hero THEN 1 ELSE @,
                       !.focus = IF focus THEN <<Slots(@[1].max, @[1].max)>> ELSE @,
                       !.spellcastingEntries = IF slots THEN entries ELSE @]
        changes  == (IF heal THEN <<"Health (HP)">> ELSE <<>>)
                    \o (IF wounded THEN <<"Wounded Condition">> ELSE <<>>)
                    \o (IF fatigued THEN <<"Fatigued Condition">> ELSE <<>>)
                    \o (IF hero THEN <<"Hero Points">> ELSE <<>>)
                    \o (IF focus /\ slots THEN <<"Focus Points and Spell Slots">>
                        ELSE IF focus THEN <<"Focus Points">>
                        ELSE IF slots THEN <<"Spell Slots">> ELSE <<>>)
    IN [actor |-> after, changes |-> changes]

\* the Rest button: executeRest reads the five checkboxes
RestStart ==
    /\ rest.pc = "dialog"
    /\ \E o \in RestOptions :
          rest' = [rest EXCEPT !.pc = "loop", !.options = o, !.i = 1, !.results = <<>>]
    /\ UNCHANGED <<Encounter, cleanup, award, exploration, module>>

\* one iteration of `for (const actor of actorsToUpdate)`; a result keeps the position
\* of its actor next to the name the report prints
RestIteration ==
    /\ rest.pc = "loop"
    /\ rest.i <= Len(rest.actorsToUpdate)
    /\ LET actor == rest.actorsToUpdate[rest.i]
           r     == RestOne(actor, rest.options)
       IN IF SkipsActor(actor)
          THEN rest' = [rest EXCEPT !.i = @ + 1]
          ELSE rest' = [rest EXCEPT
                          !.i = @ + 1,
                          !.actorsToUpdate[rest.i] = r.actor,
                          !.results = IF Len(r.changes) > 0
                                      THEN Append(@, [position |-> rest.i,
                                                      name |-> actor.name,
                                                      changes |-> r.changes])
                                      ELSE @]
    /\ UNCHANGED <<Encounter, cleanup, award, exploration, module>>

\* the report: a chat message when something was restored
RestReport ==
    /\ rest.pc = "loop"
    /\ rest.i > Len(rest.actorsToUpdate)
    /\ rest' = [rest EXCEPT !.pc = "done",
                            !.chat = IF Len(rest.results) > 0 THEN rest.results ELSE <<>>]
    /\ UNCHANGED <<Encounter, cleanup, award, exploration, module>>

InitRest ==
    /\ EncounterIdle(TRUE)
    /\ \E actors \in SeqsUpTo(RestActorValues, MaxRestActors) :
          /\ Len(actors) > 0
          /\ rest = [pc |-> "dialog", actorsToUpdate |-> actors, given |-> actors,
                     options |-> [doHeal |-> TRUE, doWounded |-> TRUE, doFatigued |-> FALSE,
                                  doHero |-> FALSE, doSpells |-> FALSE],
                     i |-> 0, results |-> <<>>, chat |-> <<>>]
    /\ cleanup = Idle
    /\ award = Idle
    /\ exploration = Idle
    /\ module = Idle

NextRest == RestStart \/ RestIteration \/ RestReport

SpecRest == InitRest /\ [][NextRest]_vars

----------------------------------------------------------------------------
(* Quick Combat Cleanup: cleanupCombat *)

MaxPlaceables == 2

NPC_TYPE == "npc"

\* foundry.utils.getProperty(token.actor, HP_PATH): a number, null, or undefined
HpNumber(n) == [kind |-> "number", value |-> n]
HpNull      == [kind |-> "null", value |-> 0]
HpUndefined == [kind |-> "undefined", value |-> 0]

\* a token's actor, as a sequence of zero or one actor
NoActor == <<>>
TokenActor(type, hp) == <<[type |-> type, hp |-> hp]>>

PlaceableActors ==
    { NoActor,
      TokenActor("npc", HpNumber(0)),
      TokenActor("npc", HpNumber(0 - 5)),
      TokenActor("npc", HpNumber(7)),
      TokenActor("npc", HpNull),
      TokenActor("npc", HpUndefined),
      TokenActor("character", HpNumber(0)),
      TokenActor("hazard", HpNumber(0 - 1)) }

\* canvas.tokens.placeables for the given actors: the token id is the position
Placeables(actors) == [k \in DOMAIN actors |-> [id |-> k, actor |-> actors[k]]]

\* mutant of Defeated: an NPC at exactly 0 HP does not count as defeated
DefeatedBelowZero(token) ==
    /\ token.actor # <<>>
    /\ token.actor[1].type = NPC_TYPE
    /\ token.actor[1].hp.kind = "number"
    /\ token.actor[1].hp.value < 0

\* the filter of defeatedData: undefined <= 0 is false, null is excluded by the code
Defeated(token) ==
    IF token.actor = <<>> \/ token.actor[1].type # NPC_TYPE THEN FALSE
    ELSE LET currentHP == token.actor[1].hp
         IN /\ currentHP.kind # "null"
            /\ currentHP.kind = "number" /\ currentHP.value <= 0

\* defeatedData.map(data => data.id)
IdsOf(tokenSeq) == [k \in DOMAIN tokenSeq |-> tokenSeq[k].id]

\* `if (!game.user.isGM) { error; return; }`
CleanupNotGM ==
    /\ cleanup.pc = "start"
    /\ ~isGM
    /\ cleanup' = [cleanup EXCEPT !.pc = "done", !.outcome = "only_gm"]
    /\ UNCHANGED <<Encounter, rest, award, exploration, module>>

\* defeatedData and tokensToRemove are computed, up to `await combat.endCombat()`
CleanupIdentify ==
    /\ cleanup.pc = "start"
    /\ isGM
    /\ cleanup' = [cleanup EXCEPT
                     !.tokensToRemove = IdsOf(SelectSeq(cleanup.placeables, Defeated)),
                     !.pc = IF cleanup.combat THEN "endCombat" ELSE "remove"]
    /\ UNCHANGED <<Encounter, rest, award, exploration, module>>

\* combat.endCombat() has ended the active combat
CleanupEndCombat ==
    /\ cleanup.pc = "endCombat"
    /\ cleanup' = [cleanup EXCEPT !.combat = FALSE, !.combatEnded = TRUE, !.pc = "remove"]
    /\ UNCHANGED <<Encounter, rest, award, exploration, module>>

\* canvas.scene.deleteEmbeddedDocuments("Token", tokensToRemove)
CleanupRemoveTokens ==
    /\ cleanup.pc = "remove"
    /\ Len(cleanup.tokensToRemove) > 0
    /\ LET Stays(token) == ~ArrIncludes(cleanup.tokensToRemove, token.id)
       IN cleanup' = [cleanup EXCEPT !.placeables = SelectSeq(@, Stays), !.pc = "chat"]
    /\ UNCHANGED <<Encounter, rest, award, exploration, module>>

CleanupNothingToRemove ==
    /\ cleanup.pc = "remove"
    /\ Len(cleanup.tokensToRemove) = 0
    /\ cleanup' = [cleanup EXCEPT !.pc = "chat"]
    /\ UNCHANGED <<Encounter, rest, award, exploration, module>>

\* the whispered report: the GM running the macro is one of gmUsers
CleanupChat ==
    /\ cleanup.pc = "chat"
    /\ cleanup' = [cleanup EXCEPT !.pc = "done", !.outcome = "cleaned",
                                  !.chat = cleanup.tokensToRemove]
    /\ UNCHANGED <<Encounter, rest, award, exploration, module>>

InitCleanup ==
    /\ \E gm \in BOOLEAN : EncounterIdle(gm)
    /\ \E actors \in SeqsUpTo(PlaceableActors, MaxPlaceables), combat \in BOOLEAN :
          cleanup = [pc |-> "start", placeables |-> Placeables(actors),
                     given |-> Placeables(actors), combat |-> combat,
                     hadCombat |-> combat, combatEnded |-> FALSE,
                     tokensToRemove |-> <<>>, chat |-> <<>>, outcome |-> "none"]
    /\ rest = Idle
    /\ award = Idle
    /\ exploration = Idle
    /\ module = Idle

NextCleanup ==
    \/ CleanupNotGM \/ CleanupIdentify \/ CleanupEndCombat
    \/ CleanupRemoveTokens \/ CleanupNothingToRemove \/ CleanupChat

SpecCleanup == InitCleanup /\ [][NextCleanup]_vars

----------------------------------------------------------------------------
(* Award XP: awardXP *)

MaxControlled == 2

\* an actor of game.actors; members lists positions in game.actors (party actors only)
XpActor(name, type, isOwner, xp, members) ==
    [name |-> name, type |-> type, isOwner |-> isOwner, xp |-> xp, members |-> members]

\* the worlds explored: two characters and a creature, with or without a party actor
AwardWorlds ==
    LET base(own) == << XpActor("Amiri", "character", own, 995, <<>>),
                        XpActor("Ezren", "character", FALSE, 1250, <<>>),
                        XpActor("Goblin", "npc", own, 0, <<>>) >>
    IN { base(own) : own \in BOOLEAN }
       \cup { Append(base(own), XpActor("Party", "party", own, 0, m)) :
                 own \in BOOLEAN, m \in {<<1, 2>>, <<3>>} }
       \cup { Append(base(TRUE), XpActor("The Party", "party", TRUE, 0, <<1, 2>>)) }

\* a controlled token: the position of its actor in game.actors, 0 without actor
ControlledTokens(actors) == SeqsUpTo(0..3, MaxControlled)

\* canvas.tokens.controlled.map(t => t.actor).filter(a => a)
SelectedActors(controlled) ==
    LET HasActor(t) == t # 0 IN SelectSeq(controlled, HasActor)

\* positions filtered to the actors of type character
Characters(actors, positions) ==
    LET IsCharacter(a) == actors[a].type = "character" IN SelectSeq(positions, IsCharacter)

\* game.actors.find(a => a.name === "Party" && a.type === "party"), zero or one position
PartyActor(actors) ==
    LET hits == {k \in DOMAIN actors : actors[k].name = "Party" /\ actors[k].type = "party"}
    IN IF hits = {} THEN <<>> ELSE <<CHOOSE k \in hits : \A j \in hits : k <= j>>

\* game.actors.filter(a => a.type === "character" && a.isOwner)
OwnedCharacters(actors) ==
    LET Owned(k) == actors[k].type = "character" /\ actors[k].isOwner
    IN SelectSeq([k \in DOMAIN actors |-> k], Owned)

\* lines 18-39: the targets of the award
ActorsToUpdate(actors, controlled) ==
    LET selectedActors == SelectedActors(controlled)
        case1 == IF Len(selectedActors) > 0 THEN Characters(actors, selectedActors) ELSE <<>>
        partyActor == PartyActor(actors)
        case2 == IF Len(case1) = 0 /\ partyActor # <<>>
                 THEN Characters(actors, actors[partyActor[1]].members)
                 ELSE case1
    IN IF Len(case2) = 0 THEN OwnedCharacters(actors) ELSE case2

\* the threshold of the chosen pace
XpThreshold(pace) ==
    IF pace = "fast" THEN 800 ELSE IF pace = "slow" THEN 1200 ELSE 1000

\* the XP written for an actor
NewXP(currentXP, amount, xpThreshold, resetXp) ==
    (IF resetXp /\ currentXP >= xpThreshold THEN currentXP % xpThreshold ELSE currentXP)
        + amount

\* awardXP up to the dialog: no target gives the warning
AwardNoTargets ==
    /\ award.pc = "start"
    /\ Len(ActorsToUpdate(award.actors, award.controlled)) = 0
    /\ award' = [award EXCEPT !.pc = "done", !.outcome = "no_valid_pc"]
    /\ UNCHANGED <<Encounter, rest, cleanup, exploration, module>>

AwardTargets ==
    /\ award.pc = "start"
    /\ Len(ActorsToUpdate(award.actors, award.controlled)) # 0
    /\ award' = [award EXCEPT !.pc = "dialog",
                              !.actorsToUpdate = ActorsToUpdate(award.actors, award.controlled)]
    /\ UNCHANGED <<Encounter, rest, cleanup, exploration, module>>

AwardCancel ==
    /\ award.pc = "dialog"
    /\ award' = [award EXCEPT !.pc = "done", !.outcome = "cancelled"]
    /\ UNCHANGED <<Encounter, rest, cleanup, exploration, module>>

\* the Award XP button with an amount that is not a positive number
AwardInvalidAmount ==
    /\ award.pc = "dialog"
    /\ award' = [award EXCEPT !.pc = "done", !.outcome = "invalid_amount"]
    /\ UNCHANGED <<Encounter, rest, cleanup, exploration, module>>

\* the Award XP button with a positive amount
AwardConfirm ==
    /\ award.pc = "dialog"
    /\ \E amount \in {10}, pace \in {"normal", "fast"}, resetXp \in BOOLEAN :
          award' = [award EXCEPT !.pc = "loop", !.i = 1, !.amount = amount,
                                 !.xpThreshold = XpThreshold(pace), !.resetXp = resetXp]
    /\ UNCHANGED <<Encounter, rest, cleanup, exploration, module>>

\* one iteration of `for (const actor of actors)`; updated = actor.update did not throw
AwardActor ==
    /\ award.pc = "loop"
    /\ award.i <= Len(award.actorsToUpdate)
    /\ \E updated \in BOOLEAN :
          LET a == award.actorsToUpdate[award.i]
              newXP == NewXP(award.actors[a].xp, award.amount, award.xpThreshold,
                             award.resetXp)
          IN award' = [award EXCEPT
                          !.i = @ + 1,
                          !.actors[a].xp = IF updated THEN newXP ELSE @,
                          !.summary = Append(@, [actor |-> a, newXP |-> newXP])]
    /\ UNCHANGED <<Encounter, rest, cleanup, exploration, module>>

AwardChat ==
    /\ award.pc = "loop"
    /\ award.i > Len(award.actorsToUpdate)
    /\ award' = [award EXCEPT !.pc = "done", !.outcome = "awarded"]
    /\ UNCHANGED <<Encounter, rest, cleanup, exploration, module>>

InitAward ==
    /\ EncounterIdle(TRUE)
    /\ \E actors \in AwardWorlds :
          \E controlled \in ControlledTokens(actors) :
              award = [pc |-> "start", actors |-> actors, given |-> actors,
                       controlled |-> controlled, actorsToUpdate |-> <<>>, i |-> 0,
                       amount |-> 0, xpThreshold |-> 0, resetXp |-> FALSE,
                       summary |-> <<>>, outcome |-> "none"]
    /\ rest = Idle
    /\ cleanup = Idle
    /\ exploration = Idle
    /\ module = Idle

NextAward ==
    \/ AwardNoTargets \/ AwardTargets \/ AwardCancel \/ AwardInvalidAmount
    \/ AwardConfirm \/ AwardActor \/ AwardChat

SpecAward == InitAward /\ [][NextAward]_vars

----------------------------------------------------------------------------
(* Easy Exploration: manageExploration, setExploration, clearExploration *)

MaxSelections == 2

ACTIONS_PACK == "pf2e.actionspf2e"

\* `Compendium.${pack.collection}.Item.${entry._id}`, a uuid as its dot-separated parts
CompendiumUuid(collection, id) == <<"Compendium", collection, "Item", id>>

\* the uuid of an item embedded on the actor
EmbeddedUuid(actorId, id) == <<"Actor", actorId, "Item", id>>

\* an item embedded on the actor; sourceId <<>> is an item without source
SheetItem(id, name, sourceId, type, isExploration) ==
    [id |-> id, name |-> name, sourceId |-> sourceId, type |-> type,
     exploration |-> isExploration]

\* the index of the actions compendium
ActionsIndex ==
    << [id |-> "s1", name |-> "Search", exploration |-> TRUE],
       [id |-> "s2", name |-> "Scout", exploration |-> TRUE],
       [id |-> "s3", name |-> "Strike", exploration |-> FALSE] >>

\* the sheets the macro is run on
Sheets ==
    { <<>>,
      << SheetItem("i1", "Search", CompendiumUuid(ACTIONS_PACK, "s1"), "action", TRUE) >>,
      << SheetItem("i1", "Search", <<>>, "action", TRUE) >>,
      << SheetItem("i1", "Seek Often", CompendiumUuid(ACTIONS_PACK, "s1"), "action", TRUE) >>,
      << SheetItem("i1", "Track", <<>>, "feat", TRUE),
         SheetItem("i2", "Longsword", <<>>, "weapon", FALSE) >> }

\* the ids given to created items, in order of creation
NewIds == <<"n1", "n2", "n3", "n4">>

\* the names in localeCompare order
NameOrder == <<"Longsword", "Scout", "Search", "Seek Often", "Strike", "Track">>

RECURSIVE SortByName(_, _)
\* opts.sort((a, b) => a.name.localeCompare(b.name)), from position k of NameOrder on
SortByName(opts, k) ==
    IF k > Len(NameOrder) THEN <<>>
    ELSE LET Named(o) == o.name = NameOrder[k]
         IN SelectSeq(opts, Named) \o SortByName(opts, k + 1)

\* the compendium entries with the exploration trait, as options
StandardOptions ==
    LET IsExploration(e) == e.exploration
        kept == SelectSeq(ActionsIndex, IsExploration)
    IN SortByName([k \in DOMAIN kept |->
                      [name |-> kept[k].name,
                       uuid |-> CompendiumUuid(ACTIONS_PACK, kept[k].id)]], 1)

\* the actor's actions and feats with the exploration trait, as options
CharacterOptions(items) ==
    LET IsActivity(i) == i.type \in {"action", "feat"} /\ i.exploration
        kept == SelectSeq(items, IsActivity)
    IN SortByName([k \in DOMAIN kept |->
                      [name |-> kept[k].name,
                       uuid |-> EmbeddedUuid("a1", kept[k].id)]], 1)

\* uuid.startsWith("Compendium")
StartsWithCompendium(uuid) == uuid[1] = "Compendium"

\* uuid.split(".").pop()
SplitPop(uuid) == uuid[Len(uuid)]

ExistingItemBySourceOnly(items, uuid, name) ==
    LET Matches(i) == i.sourceId = uuid
        hits == SelectSeq(items, Matches)
    IN IF Len(hits) = 0 THEN <<>> ELSE <<hits[1]>>

\* actor.items.find(i => i.sourceId === uuid || i.name === name), zero or one item
ExistingItem(items, uuid, name) ==
    LET Matches(i) == i.sourceId = uuid \/ i.name = name
        hits == SelectSeq(items, Matches)
    IN IF Len(hits) = 0 THEN <<>> ELSE <<hits[1]>>

\* the top-level checks of the selection, and the missing compendium
ExplorationRejected ==
    /\ exploration.pc = "start"
    /\ exploration.selection # "character" \/ ~exploration.pack
    /\ exploration' = [exploration EXCEPT !.pc = "done", !.outcome = "rejected"]
    /\ UNCHANGED <<Encounter, rest, cleanup, award, module>>

\* manageExploration up to the rendered dialog
ExplorationOpen ==
    /\ exploration.pc = "start"
    /\ exploration.selection = "character"
    /\ exploration.pack
    /\ exploration' = [exploration EXCEPT
                          !.pc = "dialog",
                          !.options = CharacterOptions(exploration.items)
                                          \o StandardOptions]
    /\ UNCHANGED <<Encounter, rest, cleanup, award, module>>

ExplorationCancel ==
    /\ exploration.pc = "dialog"
    /\ exploration' = [exploration EXCEPT !.pc = "done", !.outcome = "cancelled"]
    /\ UNCHANGED <<Encounter, rest, cleanup, award, module>>

\* Set Activity with the option CLEAR: clearExploration
ClearExploration ==
    /\ exploration.pc = "dialog"
    /\ exploration' = [exploration EXCEPT !.pc = "done", !.system = <<>>,
                                          !.outcome = "cleared"]
    /\ UNCHANGED <<Encounter, rest, cleanup, award, module>>

\* Set Activity with an activity: the call of setExploration
ExplorationSelect ==
    /\ exploration.pc = "dialog"
    /\ \E k \in DOMAIN exploration.options :
          exploration' = [exploration EXCEPT !.pc = "set",
                                             !.uuid = exploration.options[k].uuid,
                                             !.name = exploration.options[k].name,
                                             !.finalItemId = ""]
    /\ UNCHANGED <<Encounter, rest, cleanup, award, module>>

\* setExploration, compendium uuid, the actor has the item
SetExisting ==
    /\ exploration.pc = "set"
    /\ StartsWithCompendium(exploration.uuid)
    /\ LET existingItem == ExistingItem(exploration.items, exploration.uuid, exploration.name)
       IN /\ existingItem # <<>>
          /\ exploration' = [exploration EXCEPT !.pc = "update",
                                                !.finalItemId = existingItem[1].id]
    /\ UNCHANGED <<Encounter, rest, cleanup, award, module>>

\* setExploration, compendium uuid, the actor lacks the item: fromUuid
SetFetch ==
    /\ exploration.pc = "set"
    /\ StartsWithCompendium(exploration.uuid)
    /\ ExistingItem(exploration.items, exploration.uuid, exploration.name) = <<>>
    /\ \E found \in BOOLEAN :
          exploration' = [exploration EXCEPT
                             !.pc = IF found THEN "create" ELSE "done",
                             !.outcome = IF found THEN @ ELSE "error"]
    /\ UNCHANGED <<Encounter, rest, cleanup, award, module>>

\* actor.createEmbeddedDocuments("Item", [sourceItem.toObject()]); the copy keeps the
\* name; whether it records its source is left open
SetCreate ==
    /\ exploration.pc = "create"
    /\ Len(exploration.created) < Len(NewIds)
    /\ \E withSource \in BOOLEAN :
          LET id == NewIds[Len(exploration.created) + 1]
              copy == SheetItem(id, exploration.name,
                                IF withSource THEN exploration.uuid ELSE <<>>,
                                "action", TRUE)
          IN exploration' = [exploration EXCEPT !.pc = "update",
                                                !.items = Append(@, copy),
                                                !.created = Append(@, id),
                                                !.finalItemId = id]
    /\ UNCHANGED <<Encounter, rest, cleanup, award, module>>

\* setExploration, uuid of an item of the actor
SetLocal ==
    /\ exploration.pc = "set"
    /\ ~StartsWithCompendium(exploration.uuid)
    /\ exploration' = [exploration EXCEPT !.pc = "update",
                                          !.finalItemId = SplitPop(exploration.uuid)]
    /\ UNCHANGED <<Encounter, rest, cleanup, award, module>>

\* actor.update({"system.exploration": [finalItemId]}); a rejected update is caught
SetUpdate ==
    /\ exploration.pc = "update"
    /\ \E updated \in BOOLEAN :
          exploration' = [exploration EXCEPT
                             !.pc = IF updated THEN "chat" ELSE "done",
                             !.system = IF updated THEN <<exploration.finalItemId>> ELSE @,
                             !.outcome = IF updated THEN @ ELSE "error"]
    /\ UNCHANGED <<Encounter, rest, cleanup, award, module>>

SetChat ==
    /\ exploration.pc = "chat"
    /\ exploration' = [exploration EXCEPT !.pc = "done", !.outcome = "set"]
    /\ UNCHANGED <<Encounter, rest, cleanup, award, module>>

\* the macro is run again on the same actor
ExplorationAgain ==
    /\ exploration.pc = "done"
    /\ exploration.runs < MaxSelections
    /\ exploration' = [exploration EXCEPT !.pc = "start", !.runs = @ + 1,
                                          !.options = <<>>, !.uuid = <<>>, !.name = "",
                                          !.finalItemId = "", !.outcome = "none"]
    /\ UNCHANGED <<Encounter, rest, cleanup, award, module>>

InitExploration ==
    /\ EncounterIdle(TRUE)
    /\ \E selection \in {"none", "many", "npc", "character"}, pack \in BOOLEAN,
          items \in Sheets :
          exploration = [pc |-> "start", selection |-> selection, pack |-> pack,
                         items |-> items, system |-> <<>>, options |-> <<>>,
                         uuid |-> <<>>, name |-> "", finalItemId |-> "",
                         created |-> <<>>, runs |-> 1, outcome |-> "none"]
    /\ rest = Idle
    /\ cleanup = Idle
    /\ award = Idle
    /\ module = Idle

NextExploration ==
    \/ ExplorationRejected \/ ExplorationOpen \/ ExplorationCancel \/ ClearExploration
    \/ ExplorationSelect \/ SetExisting \/ SetFetch \/ SetCreate \/ SetLocal
    \/ SetUpdate \/ SetChat \/ ExplorationAgain

SpecExploration == InitExploration /\ [][NextExploration]_vars

----------------------------------------------------------------------------
(* Module entry point: getOrCreateFolder, createMacroDocument, the ready hook *)

MaxSessions == 2

MACRO_FOLDER_NAME == "PF2e Awesome Macros For GMs"

\* the value is set in quick-recall-knowledge.js; the name is kept by its identifier
QUICK_RECALL_MACRO_NAME == "QUICK_RECALL_MACRO_NAME"

\* the functions the ready hook stores on game.pf2eAwedomeMacros
RegisteredFunctions ==
    {"generateEncounter", "openRecallKnowledgeDialog", "openJournalExportDialog",
     "openFullRestoreDialog", "resizeToken", "cleanupCombat", "applyInitiativeModifier",
     "awardXP", "addStatusEffect"}

\* `game.pf2eAwedomeMacros.<fn>();` as the path it calls
Command(fn) == <<"game", "pf2eAwedomeMacros", fn>>

\* the createMacroDocument calls of the ready hook, in order
MacroCalls ==
    << [name |-> "Create Random Encounter", command |-> Command("generateEncounter")],
       [name |-> QUICK_RECALL_MACRO_NAME, command |-> Command("openRecallKnowledgeDialog")],
       [name |-> "Export Journals", command |-> Command("openJournalExportDialog")],
       [name |-> "Full Restore", command |-> Command("openFullRestoreDialog")],
       [name |-> "Quick Token Resizer", command |-> Command("resizeToken")],
       [name |-> "Quick Combat Cleanup", command |-> Command("cleanupCombat")],
       [name |-> "Apply Initiative Modifier", command |-> Command("applyInitiativeModifier")],
       [name |-> "Award Experience Points (XP)", command |-> Command("awardXP")],
       [name |-> "Easy Add Status/Condition", command |-> Command("addStatusEffect")],
       [name |-> "Easy Exploration", command |-> Command("addExplorationActivity")] >>

\* the macro document built from macroData
MacroDocument(name, command, folderId) ==
    [name |-> name, command |-> command, folder |-> folderId, isModuleMacro |-> TRUE]

\* a macro a user wrote by hand under the name of one of the module's macros
UserMacro ==
    [name |-> "Full Restore", command |-> <<"game", "user", "restore">>,
     folder |-> "null", isModuleMacro |-> FALSE]

ExistingMacroOfModule(macros, name) ==
    \E m \in macros : m.name = name /\ m.isModuleMacro

\* game.macros.getName(name) is truthy
ExistingMacro(macros, name) == \E m \in macros : m.name = name

\* the ready hook up to the folder: the namespace is filled, a GM looks for the folder
ReadyRegister ==
    /\ module.pc = "start"
    /\ module' = [module EXCEPT !.pc = IF module.isGM THEN "folder" ELSE "macros",
                                !.registered = @ \cup RegisteredFunctions,
                                !.targetFolderId = "null",
                                !.k = 1]
    /\ UNCHANGED <<Encounter, rest, cleanup, award, exploration>>

\* getOrCreateFolder finds the folder
FolderFound ==
    /\ module.pc = "folder"
    /\ module.folder
    /\ module' = [module EXCEPT !.pc = "macros", !.targetFolderId = "f1"]
    /\ UNCHANGED <<Encounter, rest, cleanup, award, exploration>>

\* getOrCreateFolder creates the folder, or Folder.create is rejected and null is returned
FolderCreate ==
    /\ module.pc = "folder"
    /\ ~module.folder
    /\ \E created \in BOOLEAN :
          module' = [module EXCEPT
                        !.pc = "macros",
                        !.folder = created,
                        !.targetFolderId = IF created THEN "f1" ELSE "null",
                        !.infos = IF created THEN @ + 1 ELSE @]
    /\ UNCHANGED <<Encounter, rest, cleanup, award, exploration>>

\* createMacroDocument returns at the existing macro
MacroExists ==
    /\ module.pc = "macros"
    /\ module.k <= Len(MacroCalls)
    /\ ExistingMacro(module.macros, MacroCalls[module.k].name)
    /\ module' = [module EXCEPT !.k = @ + 1]
    /\ UNCHANGED <<Encounter, rest, cleanup, award, exploration>>

\* createMacroDocument for a GM: Macro.create, which may be rejected
MacroCreate ==
    /\ module.pc = "macros"
    /\ module.k <= Len(MacroCalls)
    /\ ~ExistingMacro(module.macros, MacroCalls[module.k].name)
    /\ module.isGM
    /\ \E created \in BOOLEAN :
          LET call == MacroCalls[module.k]
              doc == MacroDocument(call.name, call.command, module.targetFolderId)
          IN module' = [module EXCEPT
                           !.k = @ + 1,
                           !.macros = IF created THEN @ \cup {doc} ELSE @,
                           !.infos = IF created THEN @ + 1 ELSE @]
    /\ UNCHANGED <<Encounter, rest, cleanup, award, exploration>>

\* createMacroDocument for another user: the console warning
MacroNotGM ==
    /\ module.pc = "macros"
    /\ module.k <= Len(MacroCalls)
    /\ ~ExistingMacro(module.macros, MacroCalls[module.k].name)
    /\ ~module.isGM
    /\ module' = [module EXCEPT !.k = @ + 1]
    /\ UNCHANGED <<Encounter, rest, cleanup, award, exploration>>

\* every call has settled
ReadyDone ==
    /\ module.pc = "macros"
    /\ module.k > Len(MacroCalls)
    /\ module' = [module EXCEPT !.pc = "done"]
    /\ UNCHANGED <<Encounter, rest, cleanup, award, exploration>>

\* the next session of the world: the hook runs once more, for a GM or another user
ReadyAgain ==
    /\ module.pc = "done"
    /\ module.sessions < MaxSessions
    /\ \E gm \in BOOLEAN :
          module' = [module EXCEPT !.pc = "start", !.isGM = gm, !.registered = {},
                                   !.targetFolderId = "null", !.k = 0, !.infos = 0,
                                   !.sessions = @ + 1]
    /\ UNCHANGED <<Encounter, rest, cleanup, award, exploration>>

InitReady ==
    /\ EncounterIdle(TRUE)
    /\ \E gm \in BOOLEAN, macros \in {{}, {UserMacro}} :
          module = [pc |-> "start", isGM |-> gm, registered |-> {}, folder |-> FALSE,
                    targetFolderId |-> "null", macros |-> macros, k |-> 0, infos |-> 0,
                    sessions |-> 1]
    /\ rest = Idle
    /\ cleanup = Idle
    /\ award = Idle
    /\ exploration = Idle

NextReady ==
    \/ ReadyRegister \/ FolderFound \/ FolderCreate \/ MacroExists \/ MacroCreate
    \/ MacroNotGM \/ ReadyDone \/ ReadyAgain

SpecReady == InitReady /\ [][NextReady]_vars

----------------------------------------------------------------------------
(* Properties *)

InPick == pc \in {"loop", "picked", "spawn", "done"} /\ packIdx > Len(PackKeys)

RECURSIVE TotalCost(_, _)
\* the cost of a sequence of chosen monsters for the party level a
TotalCost(chosen, a) ==
    IF chosen = <<>> THEN 0
    ELSE Cost(chosen[1].level - a) + TotalCost(Tail(chosen), a)

\* C1: the accumulated cost of the accepted monsters never exceeds budget + 10,
\* during the selection loop and at return.
C1_SpentWithinTolerance ==
    InPick => /\ currentSpent <= budget + 10
              /\ TotalCost(selected, apl) <= budget + 10

\* C1 witness: a run that returned two or more monsters using the whole tolerance
C1_Witness ==
    /\ pc = "picked"
    /\ Len(selected) >= 2
    /\ currentSpent = budget + 10

\* C2: the selection loop performs at most 100 attempts and always terminates.
C2_LoopTerminates ==
    /\ [](attempts <= 100)
    /\ [][pc = "loop" /\ pc' = "loop" => attempts' = attempts + 1]_vars
    /\ (pc = "loop") ~> (pc = "picked")

\* C2 witness: 100 attempts were made and no candidate ever fitted the budget
C2_Witness ==
    /\ pc = "picked"
    /\ attempts = 100
    /\ Len(candidates) > 0
    /\ selected = <<>>

\* C3: every returned monster has the id of an entry of the filtered candidate pool.
C3_ChosenFromPool ==
    InPick => \A k \in DOMAIN selected :
                 \E j \in DOMAIN candidates :
                    /\ candidates[j]._id = selected[k]._id
                    /\ candidates[j].pack = selected[k].pack

\* C3 witness: a monster type was reused, a new one was added, and the filter had
\* removed an entry from the pool
C3_Witness ==
    /\ pc = "picked"
    /\ \E k, m \in DOMAIN selected : k # m /\ selected[k]._id = selected[m]._id
    /\ Len(selectedUniqueActorIds) >= 2
    /\ \E p \in DOMAIN packs : Len(packs[p].index) > 0
    /\ Len(candidates) < Len(packs[1].index) + Len(packs[2].index)

BudgetDerived == selectedDifficulty \in Difficulties

\* C4: for each tier and every party size >= 1 the XP budget is >= 40.
C4_BudgetAtLeast40 ==
    BudgetDerived => partySize >= 1 /\ xpBudget >= 40

\* C4 witness: a budget that the floor raised to 40
C4_Witness ==
    /\ BudgetDerived
    /\ xpValues[selectedDifficulty] + 20 * (partySize - 4) < 40
    /\ xpBudget = 40

BaseOf(tier) ==
    CASE tier = "Trivial" -> 40
      [] tier = "Low" -> 60
      [] tier = "Moderate" -> 80
      [] tier = "Severe" -> 120
      [] tier = "Extreme" -> 160

Max(a, b) == IF a >= b THEN a ELSE b

\* C5: the budget is max(40, base(tier) + 20 * (partySize - 4)); (Moderate, 4) gives
\* 80, (Trivial, 6) gives 80 and (Extreme, 2) gives 120.
C5_BudgetFormula ==
    BudgetDerived =>
        /\ xpBudget = Max(40, BaseOf(selectedDifficulty) + 20 * (partySize - 4))
        /\ (selectedDifficulty = "Moderate" /\ partySize = 4 => xpBudget = 80)
        /\ (selectedDifficulty = "Trivial" /\ partySize = 6 => xpBudget = 80)
        /\ (selectedDifficulty = "Extreme" /\ partySize = 2 => xpBudget = 120)

\* C5 witness: the budget of a Trivial encounter for a party of six
C5_Witness ==
    /\ selectedDifficulty = "Trivial"
    /\ partySize = 6
    /\ xpBudget = 80

\* C6: when filtering leaves no candidate, pickMonsters returns an empty sequence
\* without any selection attempt, and generateEncounter places no token and
\* creates no actor.
C6_EmptyPool ==
    (InPick /\ Len(candidates) = 0) =>
        /\ pc \in {"picked", "done"}
        /\ attempts = 0
        /\ selected = <<>>
        /\ monstersToSpawn = <<>>
        /\ tokens = <<>>
        /\ worldActors = {}
        /\ (pc = "done" => outcome = "no_monsters")

\* C6 witness: a run that ended on an empty pool although the packs held entries
C6_Witness ==
    /\ pc = "done"
    /\ packIdx > Len(PackKeys)
    /\ Len(candidates) = 0
    /\ Len(packs[1].index) > 0
    /\ outcome = "no_monsters"

(* Filtering, stated on the pack indexes and the resulting candidate list *)

PresentEntries(p) == IF packs[p].present THEN Range(packs[p].index) ELSE {}

PackNo(key) == CHOOSE p \in DOMAIN PackKeys : PackKeys[p] = key

LevelEligible(e) == e.type = "npc" /\ e.level \in (apl - 3)..(apl + 2)

\* the rarity of an entry, an entry without rarity data counting as common
EffectiveRarity(e) ==
    IF e.hasRarity /\ e.rarity # <<>> THEN ToLowerCase(e.rarity) ELSE COMMON

RarityEligible(e) == rarityLower = ANY \/ EffectiveRarity(e) = rarityLower

CarriesTag(e, t) == e.hasTraits /\ t \in Range(e.traits)

CarriesTagAnyCase(e, t) == e.hasTraits /\ \E x \in Range(e.traits) : ToLowerCase(x) = t

NameContains(e, t) == StrIncludes(ToLowerCase(e.name), t)

InCandidates(e, p) ==
    \E k \in DOMAIN candidates :
        candidates[k]._id = e._id /\ candidates[k].pack = PackKeys[p]

\* the name-substring fallback is what filled the candidates of pack p
FallbackFired(p) ==
    /\ traitLower # <<>>
    /\ ~\E e \in PresentEntries(p) :
           LevelEligible(e) /\ RarityEligible(e) /\ CarriesTag(e, traitLower)

\* C7 as stated: with a requested rarity other than "any", every candidate has that
\* rarity, for every trait argument.
C7_RarityForEveryTrait ==
    (FilterDone /\ rarityLower # ANY) =>
        \A k \in DOMAIN candidates : EffectiveRarity(candidates[k]) = rarityLower

\* C7 amended: with a requested rarity other than "any", every candidate has that
\* rarity unless it comes from a pack whose candidates the name-substring fallback
\* supplied; the fallback does not apply the rarity rule.
C7_RarityUnlessFallback ==
    (FilterDone /\ rarityLower # ANY) =>
        \A k \in DOMAIN candidates :
            ~FallbackFired(PackNo(candidates[k].pack))
                => EffectiveRarity(candidates[k]) = rarityLower

\* C7 witness: a trait and a rarity are requested, the tag rule kept an entry and
\* the rarity rule removed a tagged entry of another rarity from the same pack
C7_Witness ==
    /\ FilterDone
    /\ rarityLower = RARE
    /\ traitLower # <<>>
    /\ \E k \in DOMAIN candidates :
          LET p == PackNo(candidates[k].pack)
          IN /\ ~FallbackFired(p)
             /\ \E e \in PresentEntries(p) :
                   /\ LevelEligible(e)
                   /\ CarriesTag(e, traitLower)
                   /\ EffectiveRarity(e) # RARE

\* C8: when a trait is requested and no level-eligible entry carries the tag, the
\* candidate list contains every level-eligible entry whose name contains the
\* trait, compared case-insensitively.
C8_NameFallback ==
    ( /\ FilterDone
      /\ traitLower # <<>>
      /\ \A p \in DOMAIN packs : \A e \in PresentEntries(p) :
            LevelEligible(e) => ~CarriesTag(e, traitLower) )
    => \A p \in DOMAIN packs : \A e \in PresentEntries(p) :
          (LevelEligible(e) /\ NameContains(e, traitLower)) => InCandidates(e, p)

\* C8 witness: no entry is tagged "fiend", a rarity is requested, and the entry
\* named "Fiendling" is a candidate
C8_Witness ==
    /\ FilterDone
    /\ traitLower = Fiend
    /\ rarityLower = RARE
    /\ \A p \in DOMAIN packs : \A e \in PresentEntries(p) :
          LevelEligible(e) => ~CarriesTag(e, traitLower)
    /\ \E k \in DOMAIN candidates :
          candidates[k].name = <<"F","i","e","n","d","l","i","n","g">>

\* C9 as stated: if an entry passing the level and rarity rules carries the
\* requested tag, every candidate carries it, whatever the number of packs.
C9_FallbackOnlyWhenNoneTagged ==
    ( /\ FilterDone
      /\ traitLower # <<>>
      /\ \E p \in DOMAIN packs : \E e \in PresentEntries(p) :
            LevelEligible(e) /\ RarityEligible(e) /\ CarriesTag(e, traitLower) )
    => \A k \in DOMAIN candidates : CarriesTag(candidates[k], traitLower)

\* C10 as stated: an entry passing the level and rarity rules whose trait set holds
\* the requested trait under any letter casing is kept.
C10_TraitAnyCase ==
    (FilterDone /\ traitLower # <<>>) =>
        \A p \in DOMAIN packs : \A e \in PresentEntries(p) :
            (LevelEligible(e) /\ RarityEligible(e) /\ CarriesTagAnyCase(e, traitLower))
                => InCandidates(e, p)

\* C11: every candidate is an npc whose level lies in [apl - 3, apl + 2], for every
\* trait and rarity argument, entries admitted by the name fallback included.
C11_CandidatesInLevelWindow ==
    FilterDone =>
        \A k \in DOMAIN candidates :
            /\ candidates[k].type = "npc"
            /\ candidates[k].level >= apl - 3
            /\ candidates[k].level <= apl + 2

\* C11 witness: the fallback admitted an entry by its name, and left out an npc
\* of the same pack whose name matches but whose level is outside the window
C11_Witness ==
    /\ FilterDone
    /\ \E k \in DOMAIN candidates :
          LET p == PackNo(candidates[k].pack)
          IN /\ FallbackFired(p)
             /\ \E e \in PresentEntries(p) :
                   /\ e.type = "npc"
                   /\ NameContains(e, traitLower)
                   /\ e.level > apl + 2
                   /\ ~InCandidates(e, p)

(* The selection loop, stated on single attempts *)

\* the step is one attempt of the selection loop
IsAttempt == pc = "loop" /\ attempts' = attempts + 1

\* the attempt appended the document of pick p to the chosen sequence
Accepted(p) == selected' = Append(selected, Document(p))

\* C13 as stated: a pick whose level delta has a cost is accepted if and only if
\* spent + cost <= budget + 10.
C13_AcceptedIffWithinTolerance ==
    [][IsAttempt =>
          \A ps \in PossiblePicks, f \in BOOLEAN :
              (AttemptWith(ps, f) /\ ps # <<>> /\ HasCost(ps[1].level - apl))
                  => (Accepted(ps[1])
                        <=> currentSpent + Cost(ps[1].level - apl) <= budget + 10)]_vars

\* C13 amended: a pick whose level delta has a cost is accepted if and only if
\* spent + cost <= budget + 10 and the compendium document of the pick was fetched.
C13_AcceptedIffWithinToleranceAndFetched ==
    [][IsAttempt =>
          \A ps \in PossiblePicks, f \in BOOLEAN :
              (AttemptWith(ps, f) /\ ps # <<>> /\ HasCost(ps[1].level - apl))
                  => (Accepted(ps[1])
                        <=> (currentSpent + Cost(ps[1].level - apl) <= budget + 10 /\ f))]_vars

\* C13 witness: a pick was accepted, an attempt was refused, and the loop goes on
\* with a candidate that fits and a candidate that does not
C13_Witness ==
    /\ pc = "loop"
    /\ Len(selected) >= 1
    /\ attempts > Len(selected)
    /\ currentSpent < budget
    /\ \E k \in DOMAIN candidates :
          currentSpent + Cost(candidates[k].level - apl) > budget + 10
    /\ \E k \in DOMAIN candidates :
          currentSpent + Cost(candidates[k].level - apl) = budget + 10

\* C14: for a non-empty pool the loop stops exactly when spent >= budget or the
\* attempt count reaches 100: no attempt is made once spent >= budget (or after
\* 100 attempts), the loop does not return before, and a run that ends after
\* fewer than 100 attempts returns with budget <= spent <= budget + 10.
C14_LoopStopsExactly ==
    /\ [][IsAttempt => (currentSpent < budget /\ attempts < 100)]_vars
    /\ [][(pc = "loop" /\ pc' = "picked") => (currentSpent >= budget \/ attempts >= 100)]_vars
    /\ []((pc = "picked" /\ Len(candidates) > 0 /\ attempts < 100)
            => (budget <= currentSpent /\ currentSpent <= budget + 10))

\* C14 witness: a run that returned before 100 attempts with the budget met exactly
C14_Witness ==
    /\ pc = "picked"
    /\ Len(candidates) > 0
    /\ attempts < 100
    /\ attempts > Len(selected)
    /\ currentSpent = budget

\* some candidate of the pool costs at most budget + 10
SomeCandidateFits ==
    \E k \in DOMAIN candidates :
        /\ HasCost(candidates[k].level - apl)
        /\ Cost(candidates[k].level - apl) <= budget + 10

\* C15 as stated: if the pool contains a candidate whose cost is <= budget + 10,
\* the sequence returned by pickMonsters is non-empty.
C15_NonEmptyWhenPossible ==
    (pc = "picked" /\ SomeCandidateFits) => selected # <<>>

\* C15 amended: with such a candidate in the pool, the returned sequence is empty
\* only after 100 attempts, none of which picked a candidate within budget + 10
\* whose document was fetched; the first attempt that does makes it non-empty.
C15_EmptyOnlyAfterAllAttemptsFail ==
    /\ []((pc = "picked" /\ SomeCandidateFits /\ selected = <<>>) => attempts = 100)
    /\ [][(IsAttempt /\ selected = <<>>) =>
             \A ps \in PossiblePicks, f \in BOOLEAN :
                 ( /\ AttemptWith(ps, f)
                   /\ ps # <<>>
                   /\ HasCost(ps[1].level - apl)
                   /\ Cost(ps[1].level - apl) <= budget + 10
                   /\ f )
                 => selected' # <<>>]_vars

\* C15 witness: the pool holds a candidate that fits and one that does not, the
\* first attempts failed and a later one made the result non-empty
C15_Witness ==
    /\ pc = "picked"
    /\ SomeCandidateFits
    /\ \E k \in DOMAIN candidates : Cost(candidates[k].level - apl) > budget + 10
    /\ Len(selected) = 1
    /\ attempts >= 3

UnknownTier == selectedDifficulty \notin (Difficulties \cup {"none"})

C17_SpawnCallsSequential ==
    /\ Len(spawnCalls) <= Len(monstersToSpawn)
    /\ \A k \in DOMAIN spawnCalls :
          /\ spawnCalls[k].actor = Uuid(monstersToSpawn[k])
          /\ spawnCalls[k].spawnIndex = k - 1
          /\ k < Len(spawnCalls) => spawnCalls[k].settled
    /\ outcome = "generated" =>
          /\ Len(spawnCalls) = Len(monstersToSpawn)
          /\ \A k \in DOMAIN spawnCalls : spawnCalls[k].settled

\* C17 witness: a finished run of two or more calls, one of which failed to import
C17_Witness ==
    /\ outcome = "generated"
    /\ Len(spawnCalls) >= 2
    /\ successfulSpawns < Len(spawnCalls)
    /\ successfulSpawns > 0

\* C18: whenever the consistency branch of an attempt fires, the candidate it picks
\* has an id in the set of distinct already-chosen ids, and the branch fires only when
\* that set is non-empty, so never before the first acceptance.
C18_ReuseFromChosenIds ==
    pc = "loop" =>
        \A r1, r2 \in Draws :
            LET first == ReusePick(candidates, selectedUniqueActorIds, r1, r2)
            IN first # <<>> =>
                  /\ selected # <<>>
                  /\ selectedUniqueActorIds # <<>>
                  /\ \E k \in DOMAIN selectedUniqueActorIds :
                        selectedUniqueActorIds[k] = first[1]._id
                  /\ \E k \in DOMAIN selected : selected[k]._id = first[1]._id

\* C18 witness: an attempt can still be made, two distinct ids were chosen and the
\* consistency branch fires for some draw
C18_Witness ==
    /\ pc = "loop"
    /\ LoopCondition(currentSpent, budget, attempts)
    /\ Len(selectedUniqueActorIds) >= 2
    /\ Len(candidates) > Len(selectedUniqueActorIds)
    /\ \E r1, r2 \in Draws :
          ReusePick(candidates, selectedUniqueActorIds, r1, r2) # <<>>

RarityTags == {COMMON, UNCOMMON, RARE, UNIQUE}

\* the traits of the candidate a chosen document was fetched for
TraitsOfChosen(doc) ==
    UNION {IF candidates[k].hasTraits THEN Range(candidates[k].traits) ELSE {} :
              k \in {j \in DOMAIN candidates : candidates[j]._id = doc._id}}

\* c shares a trait that is not a rarity tag with a previously chosen candidate
SharesThematicTrait(c) ==
    /\ c.hasTraits
    /\ \E j \in DOMAIN selected :
          \E t \in TraitsOfChosen(selected[j]) \ RarityTags : t \in Range(c.traits)

\* C19: whenever an attempt draws from the synergy-restricted pool, every candidate of
\* that pool shares a trait with a previously chosen candidate, the rarity tags common,
\* uncommon, rare and unique never counting; otherwise it draws from the full
\* filtered candidate list.
C19_SynergyPoolSharesTrait ==
    pc = "loop" =>
        \A r3 \in Draws :
            LET candidateList == CandidateList(candidates, selectedTraits, r3)
            IN \/ candidateList = candidates
               \/ /\ candidateList # <<>>
                  /\ \A k \in DOMAIN candidateList :
                        /\ SharesThematicTrait(candidateList[k])
                        /\ \E j \in DOMAIN candidates : candidates[j] = candidateList[k]

\* C19 witness: the pool is restricted for some draw while a candidate left out of it
\* carries a rarity tag that a chosen candidate carries too
C19_Witness ==
    /\ pc = "loop"
    /\ LoopCondition(currentSpent, budget, attempts)
    /\ \E r3 \in Draws :
          LET candidateList == CandidateList(candidates, selectedTraits, r3)
          IN /\ candidateList # candidates
             /\ \E k \in DOMAIN candidates :
                   /\ candidates[k] \notin Range(candidateList)
                   /\ candidates[k].hasTraits
                   /\ \E t \in RarityTags :
                         /\ t \in Range(candidates[k].traits)
                         /\ t \in Range(selectedTraits)

\* the pick of an attempt is not accepted: no pick, a level delta without a cost, or a
\* cost above budget + 10
NotAccepted(pickSeq) ==
    \/ pickSeq = <<>>
    \/ ~(pickSeq[1].level - apl \in -4..2)
    \/ currentSpent + Cost(pickSeq[1].level - apl) > budget + 10

\* C20: an attempt that does not accept its pick (cost above budget + 10, level delta
\* without a cost, or no pick) leaves spent, the chosen sequence, the distinct-id set
\* and the seen-traits list unchanged; only the attempt counter advances.
C20_RejectedAttemptChangesNothing ==
    [][IsAttempt =>
          \A ps \in PossiblePicks, f \in BOOLEAN :
              (AttemptWith(ps, f) /\ NotAccepted(ps)) =>
                  /\ attempts' = attempts + 1
                  /\ currentSpent' = currentSpent
                  /\ selected' = selected
                  /\ selectedUniqueActorIds' = selectedUniqueActorIds
                  /\ selectedTraits' = selectedTraits]_vars

\* C20 witness: after an acceptance, an attempt was made and not accepted, and a pick
\* costing more than what is left within budget + 10 can be drawn again
C20_Witness ==
    /\ pc = "loop"
    /\ LoopCondition(currentSpent, budget, attempts)
    /\ Len(selected) >= 1
    /\ attempts > Len(selected)
    /\ \E ps \in PossiblePicks :
          /\ ps # <<>>
          /\ ps[1].hasTraits
          /\ currentSpent + Cost(ps[1].level - apl) > budget + 10

\* s is a prefix of t
IsPrefix(s, t) == Len(s) <= Len(t) /\ \A k \in DOMAIN s : s[k] = t[k]

\* C21: the chosen sequence only grows by appending at its end: each earlier value
\* is a prefix of every later value, so the returned order is the order of acceptance.
C21_SelectedGrowsAtEnd ==
    /\ [][(pc = "loop" /\ pc' \in {"loop", "picked"}) =>
             /\ IsPrefix(selected, selected')
             /\ Len(selected') <= Len(selected) + 1]_vars
    /\ [][(pc = "picked" /\ pc' = "spawn") => monstersToSpawn' = selected]_vars

\* C21 witness: two different monsters were accepted, with refused attempts, and returned
C21_Witness ==
    /\ pc = "spawn"
    /\ Len(monstersToSpawn) >= 2
    /\ monstersToSpawn[1] # monstersToSpawn[2]
    /\ attempts > Len(selected)

\* the spawn indices the spawn callback can pass
SpawnIndices == 0..(MaxSpawned - 1)

\* C22: spawnMonster places spawn index i at column i mod 5 and row floor(i / 5),
\* offset from the anchor by 2 * gridSize per column and per row, so before grid
\* snapping two different spawn indices never get the same position, and the position
\* is given by the index, the anchor and the grid alone.
C22_GridPlacement ==
    (pc \in {"spawn", "done"} /\ targetScene # 0) =>
        LET scene == scenes[targetScene]
            g     == scene.grid.size
            ax    == scene.width \div 2
            ay    == scene.height \div 2
        IN /\ \A i \in SpawnIndices :
                 RawPosition(g, ax, ay, i) =
                     [x |-> ax + (i % 5) * 2 * g, y |-> ay + (i \div 5) * 2 * g]
           /\ \A i, j \in SpawnIndices :
                 i # j => RawPosition(g, ax, ay, i) # RawPosition(g, ax, ay, j)
           /\ scene.grid.type = GRID_NONE =>
                 /\ \A a, b \in DOMAIN tokens :
                       a # b => <<tokens[a].x, tokens[a].y>> # <<tokens[b].x, tokens[b].y>>
                 /\ \A a \in DOMAIN tokens :
                       \E k \in DOMAIN spawnCalls :
                          /\ spawnCalls[k].settled
                          /\ tokens[a].x = ax + (spawnCalls[k].spawnIndex % 5) * 2 * g
                          /\ tokens[a].y = ay + (spawnCalls[k].spawnIndex \div 5) * 2 * g

\* C22 witness: tokens of a second row were placed on a scene without grid
C22_Witness ==
    /\ pc = "done"
    /\ scenes[targetScene].grid.type = GRID_NONE
    /\ Len(tokens) >= 6
    /\ tokens[Len(tokens)].y > tokens[1].y

\* the candidate a chosen document was fetched for
CandidateOf(doc) ==
    candidates[CHOOSE k \in DOMAIN candidates : candidates[k]._id = doc._id]

RECURSIVE TraitsInOrder(_)
\* the traits of the chosen documents' candidates, one after the other
TraitsInOrder(chosen) ==
    IF chosen = <<>> THEN <<>>
    ELSE (IF CandidateOf(chosen[1]).hasTraits THEN CandidateOf(chosen[1]).traits ELSE <<>>)
            \o TraitsInOrder(Tail(chosen))

\* C28: at every point of the selection loop the distinct-id set equals the set of ids
\* of the accepted picks, spent equals the sum of their costs (so it is >= 0 and never
\* decreases), and the seen-traits list is the concatenation of their traits in
\* acceptance order.
C28_BookkeepingConsistent ==
    /\ [](pc \in {"loop", "picked"} =>
            /\ \A a, b \in DOMAIN selectedUniqueActorIds :
                  a # b => selectedUniqueActorIds[a] # selectedUniqueActorIds[b]
            /\ Range(selectedUniqueActorIds) = {selected[k]._id : k \in DOMAIN selected}
            /\ currentSpent = TotalCost(selected, apl)
            /\ currentSpent >= 0
            /\ selectedTraits = TraitsInOrder(selected))
    /\ [][pc = "loop" => currentSpent' >= currentSpent]_vars

\* C28 witness: a monster was accepted twice and another once, with refused attempts
C28_Witness ==
    /\ pc = "loop"
    /\ Len(selected) >= 3
    /\ Len(selectedUniqueActorIds) = 2
    /\ selectedTraits # <<>>
    /\ attempts > Len(selected)

\* C29: the candidate pool is restricted to levels in [apl - 3, apl + 2], so every pick
\* made inside pickMonsters has a level delta in [-3, 2]: the delta -4 cost (10) and the
\* skip branch for a delta without a cost are never taken, and every accepted cost is
\* one of 15, 20, 30, 40, 60, 80.
C29_PickDeltaInWindow ==
    /\ pc \in {"loop", "picked"} =>
          /\ \A k \in DOMAIN candidates : candidates[k].level - apl \in -3..2
          /\ \A k \in DOMAIN selected :
                Cost(selected[k].level - apl) \in {15, 20, 30, 40, 60, 80}
    /\ pc = "loop" =>
          \A ps \in PossiblePicks : ps # <<>> => (ps[1].level - apl \in -3..2)

\* C29 witness: a pack holds an npc four levels below the party, and a monster two
\* levels above it was returned
C29_Witness ==
    /\ pc = "picked"
    /\ \E p \in DOMAIN packs : \E k \in DOMAIN packs[p].index :
          packs[p].index[k].type = "npc" /\ packs[p].index[k].level = apl - 4
    /\ \E k \in DOMAIN selected : selected[k].level = apl + 2

\* C23: Full Restore skips dead actors: for every combination of the five recovery
\* options, executeRest performs no update (HP, conditions, hero points, focus points,
\* spell slots) on an actor that has the "dead" condition, and such an actor never
\* appears in the rest report.
C23_DeadActorsSkipped ==
    rest.pc \in {"loop", "done"} =>
        /\ \A k \in DOMAIN rest.given :
              "dead" \in rest.given[k].conditions =>
                 /\ rest.actorsToUpdate[k] = rest.given[k]
                 /\ \A e \in DOMAIN rest.results : rest.results[e].position # k
                 /\ \A e \in DOMAIN rest.chat : rest.chat[e].position # k

\* C23 witness: all five options were chosen, a dead actor with everything to restore
\* was passed next to a living one, and the report was sent
C23_Witness ==
    /\ rest.pc = "done"
    /\ \A f \in DOMAIN rest.options : rest.options[f]
    /\ \E k \in DOMAIN rest.given :
          /\ "dead" \in rest.given[k].conditions
          /\ rest.given[k].hp.value < rest.given[k].hp.max
          /\ "wounded" \in rest.given[k].conditions
    /\ Len(rest.chat) > 0

\* the token is linked to an NPC actor with 0 or less HP
DefeatedNpc(token) ==
    /\ token.actor # <<>>
    /\ token.actor[1].type = "npc"
    /\ token.actor[1].hp.kind = "number"
    /\ token.actor[1].hp.value <= 0

\* C24: run by a GM, cleanupCombat deletes from the scene exactly the tokens linked to
\* an NPC actor with 0 or less HP (all of them, no token of a non-NPC actor or of an NPC
\* with HP above 0) and ends the active combat if there is one; run by a non-GM it
\* deletes no token and ends no combat.
C24_CleanupExact ==
    /\ cleanup.pc # "idle" =>
          \A k \in DOMAIN cleanup.given :
              (\A j \in DOMAIN cleanup.placeables :
                  cleanup.placeables[j].id # cleanup.given[k].id)
                 => (isGM /\ DefeatedNpc(cleanup.given[k]))
    /\ (cleanup.pc = "done" /\ isGM) =>
          /\ LET Survives(token) == ~DefeatedNpc(token)
             IN cleanup.placeables = SelectSeq(cleanup.given, Survives)
          /\ ~cleanup.combat
          /\ cleanup.combatEnded = cleanup.hadCombat
    /\ (cleanup.pc = "done" /\ ~isGM) =>
          /\ cleanup.placeables = cleanup.given
          /\ cleanup.combat = cleanup.hadCombat
          /\ ~cleanup.combatEnded

\* C24 witness: a GM ran it during a combat on a scene with an NPC at exactly 0 HP, which
\* was deleted, and a token that stayed
C24_Witness ==
    /\ cleanup.pc = "done"
    /\ isGM
    /\ cleanup.hadCombat
    /\ \E k \in DOMAIN cleanup.given :
          /\ DefeatedNpc(cleanup.given[k])
          /\ cleanup.given[k].actor[1].hp.value = 0
    /\ Len(cleanup.placeables) = 1
    /\ Len(cleanup.given) = 2

\* the positions of the actors of the selected tokens
ActorsOfSelected == {award.controlled[k] : k \in DOMAIN award.controlled} \ {0}

\* the positions of the "Party" actors of the world
PartyActors ==
    {k \in DOMAIN award.given : award.given[k].name = "Party" /\ award.given[k].type = "party"}

\* C25: awardXP chooses its targets by the documented priority: the actors of the
\* selected tokens whenever any token is selected; the members of the "Party" actor only
\* if none is selected; all owned player characters only if the "Party" actor does not
\* exist; and only actors of type character ever receive XP.
C25_TargetsByPriority ==
    award.pc \in {"dialog", "loop", "done"} =>
        LET targets == Range(award.actorsToUpdate)
        IN /\ Len(award.controlled) > 0 => targets \subseteq ActorsOfSelected
           /\ (Len(award.controlled) = 0 /\ PartyActors # {}) =>
                 \E p \in PartyActors : targets \subseteq Range(award.given[p].members)
           /\ \A a \in targets : award.given[a].type = "character"
           /\ \A a \in DOMAIN award.given :
                 award.actors[a].xp # award.given[a].xp => award.given[a].type = "character"

\* the ids of the items embedded on the actor
EmbeddedIds == {exploration.items[k].id : k \in DOMAIN exploration.items}

\* the actor has an item with that source id or that name
HasActivity(uuid, name) ==
    \E k \in DOMAIN exploration.items :
        exploration.items[k].sourceId = uuid \/ exploration.items[k].name = name

\* C26: after setExploration succeeds, system.exploration holds exactly one id, the id
\* of an item embedded on the actor; a compendium activity is copied onto the actor
\* before the exploration field is updated, and only when the actor has no item with
\* that source id or name, so that selecting the same activity again adds no second copy.
C26_ExplorationSetToEmbeddedItem ==
    /\ [](exploration.pc = "chat" \/ (exploration.pc = "done" /\ exploration.outcome = "set")
            => /\ Len(exploration.system) = 1
               /\ exploration.system[1] \in EmbeddedIds)
    /\ [](exploration.pc = "update" => exploration.finalItemId \in EmbeddedIds)
    /\ [][exploration.pc # "idle" /\ exploration'.items # exploration.items
            => /\ StartsWithCompendium(exploration.uuid)
               /\ ~HasActivity(exploration.uuid, exploration.name)
               /\ exploration'.system = exploration.system]_vars
    /\ [](\A k, j \in DOMAIN exploration.items :
            (exploration.items[k].id \in Range(exploration.created) /\ k # j)
                => exploration.items[k].name # exploration.items[j].name)

\* Search was copied onto the sheet in one run and selected again, with success, in a
\* later run
C26_Witness ==
    /\ exploration.pc = "done"
    /\ exploration.outcome = "set"
    /\ exploration.runs = 2
    /\ exploration.name = "Search"
    /\ StartsWithCompendium(exploration.uuid)
    /\ exploration.created = <<"n1">>
    /\ exploration.system = <<"n1">>

\* a macro of that name is in the world's macro directory
NamePresent(name) == \E m \in module.macros : m.name = name

\* the folder and a macro of each of the module's names exist
AllPresent ==
    /\ module.folder
    /\ \A k \in DOMAIN MacroCalls : NamePresent(MacroCalls[k].name)

\* the step creates neither a macro nor the folder
CreatesNothing ==
    /\ module'.macros = module.macros
    /\ module'.folder = module.folder

\* C27 as stated: createMacroDocument creates a macro only when no macro of that name
\* exists and the user is a GM, a run of the ready handler after an earlier run has
\* completed creates no further macro or folder, and a non-GM user never creates any.
C27_IdempotentUpsert ==
    [][module.pc # "idle" =>
          /\ \A m \in module'.macros \ module.macros :
                ~NamePresent(m.name) /\ module.isGM
          /\ module.sessions > 1 => CreatesNothing
          /\ ~module.isGM => CreatesNothing]_vars

\* C27, amended: createMacroDocument creates a macro only when no macro of that name
\* exists and the user is a GM, the folder is created only when it is missing and the
\* user is a GM, a run of the ready handler creates nothing once the folder and a macro
\* of every name exist, and a non-GM user never creates any.
C27_UpsertOnceAllPresent ==
    [][module.pc # "idle" =>
          /\ \A m \in module'.macros \ module.macros :
                ~NamePresent(m.name) /\ module.isGM
          /\ module'.folder # module.folder => ~module.folder /\ module.isGM
          /\ AllPresent => CreatesNothing
          /\ ~module.isGM => CreatesNothing]_vars

\* a GM's second session ran to its end over a complete set and created nothing
C27_Witness ==
    /\ module.pc = "done"
    /\ module.sessions = 2
    /\ module.isGM
    /\ module.infos = 0
    /\ AllPresent

\* the function a macro command calls
CalledFunction(command) == command[Len(command)]

\* C30: after the ready handler has run for a GM, every macro document it created has a
\* command that calls a function registered on game.pf2eAwedomeMacros.
C30_CreatedMacrosCallRegistered ==
    (module.pc = "done" /\ module.isGM) =>
        \A m \in module.macros :
            m.isModuleMacro => CalledFunction(m.command) \in module.registered

====
